---- MODULE Spec2Model ----
(***************************************************************************)
(* Boundary detection, corner classification, polyline tracing and slit    *)
(* stitching of stitchJS (ops.js), as a state machine over small meshes.   *)
(*                                                                         *)
(* Lengths are integers in units of 1e-4 (POLYLINE_DISTANCE_TOLERANCE), so *)
(* the tolerances of renderConfig.js are exact small numbers; squared      *)
(* distances and the projection parameter t are kept as exact fractions    *)
(* <<numerator, denominator>>.                                             *)
(***************************************************************************)
EXTENDS Integers, Sequences, FiniteSets, TLC

VARIABLES
    stage,            \* "loaded" | "boundary" | "corners" | "traced" | "stitched"
    polyData,         \* [points: Seq(<<x,y,z>>), polys: flat vtk cell array 3,a,b,c,...]
    boundaryData,     \* result of detectBoundaryEdgesSTLWithAdjacency
    angleThreshold,   \* settings.angleThreshold used for the corner pass
    corners,          \* result of detectSharpCornersWithMap
    traced,           \* [polyLineArray, neighborCells] of detechBoundaryPolylines
    stitchMap,        \* stitchMap built by stitchEdge
    cleanedPolyData,  \* polyData returned by stitchEdge
    merged,           \* mergeClosePointsManual: its arguments and what it built
    app               \* state of the React app: App, STLViewer, pending reads

vars == <<stage, polyData, boundaryData, angleThreshold, corners, traced,
          stitchMap, cleanedPolyData, merged, app>>

(***************************************************************************)
(* Bounds of the model                                                     *)
(***************************************************************************)
MaxCells == 3
MaxInterior == 2
MaxCornerCells == 2
MaxSplits == 2
MaxMergePoints == 3
MaxClicks == 2
MaxReads == 2

(***************************************************************************)
(* Program constants (renderConfig.js), in units of 1e-4                   *)
(***************************************************************************)
\* POLYLINE_DISTANCE_TOLERANCE = 0.0001 = 1 unit
POLYLINE_DISTANCE_TOLERANCE == 1
\* PROXIMITY_TOLERANCE = 1e-5 = 1/10 unit; this is its inverse
PROXIMITY_TOLERANCE_INV == 10
\* MIN_TRIANGLE_AREA = 1e-8 = 1 square unit
MIN_TRIANGLE_AREA == 1
\* 1 / POLYLINE_DISTANCE_TOLERANCE: the number of length units in 1.0
UNITS_PER_ONE == 10000

(***************************************************************************)
(* Generic helpers                                                         *)
(***************************************************************************)
Range(s) == {s[i] : i \in DOMAIN s}

Put(f, k, v) == [x \in (DOMAIN f) \cup {k} |-> IF x = k THEN v ELSE f[x]]

Drop(f, k) == [x \in (DOMAIN f) \ {k} |-> f[x]]

Min2(a, b) == IF a < b THEN a ELSE b

Max2(a, b) == IF a < b THEN b ELSE a

RECURSIVE Ascending(_)
\* the elements of a finite set of integers, as an ascending sequence
Ascending(S) ==
    IF S = {} THEN <<>>
    ELSE LET m == CHOOSE x \in S : \A y \in S : x <= y
         IN <<m>> \o Ascending(S \ {m})

RECURSIVE Flatten(_)
Flatten(ss) == IF ss = <<>> THEN <<>> ELSE Head(ss) \o Flatten(Tail(ss))

(***************************************************************************)
(* polyData accessors (vtk.js layout)                                      *)
(***************************************************************************)
\* polyData.getNumberOfPolys(): cells of 4 numbers each (3, a, b, c)
NumberOfPolys(pd) == Len(pd.polys) \div 4

\* cellData[k] of the 0-based flat array
CellDataAt(pd, k) == pd.polys[k + 1]

\* cellData.slice(cellId*4 + 1, cellId*4 + 4)
TriIds(pd, cellId) ==
    <<CellDataAt(pd, cellId * 4 + 1), CellDataAt(pd, cellId * 4 + 2),
      CellDataAt(pd, cellId * 4 + 3)>>

\* points.getData().slice(pointId*3, pointId*3 + 3)
PointCoord(pd, pointId) == pd.points[pointId + 1]

\* threeToPolyData: cellData.push(3, i0, i1, i2) for every triangle
ThreeToPolys(tris) == Flatten([i \in DOMAIN tris |-> <<3>> \o tris[i]])

(***************************************************************************)
(* detectBoundaryEdgesSTLWithAdjacency                                     *)
(***************************************************************************)
\* const hash = (a, b) => b * b + a
hash(a, b) == b * b + a

\* EdgeVisit without the deletion on the second sighting of an edge
EdgeVisit_KeepSecond(acc, pd, cellId, i) ==
    LET triIdx == TriIds(pd, cellId)
        p0 == triIdx[i + 1]
        p1 == triIdx[((i + 1) % 3) + 1]
        rotation == IF p0 < p1 THEN 1 ELSE -1
        pt_min == IF p0 < p1 THEN p0 ELSE p1
        pt_max == IF p0 < p1 THEN p1 ELSE p0
        h == hash(pt_min, pt_max)
        count == (IF h \in DOMAIN acc.edgeCount THEN acc.edgeCount[h] ELSE 0) + 1
    IN IF count = 1
       THEN [edgeCount |-> Put(acc.edgeCount, h, count),
             edgePoints |-> Put(acc.edgePoints, h, <<pt_min, pt_max, rotation, cellId, i>>),
             edgeNum |-> acc.edgeNum + 1]
       ELSE [acc EXCEPT !.edgeCount = Put(acc.edgeCount, h, count)]

\* one iteration of triIdx.forEach for side i of cell cellId
EdgeVisit(acc, pd, cellId, i) ==
    LET triIdx == TriIds(pd, cellId)
        p0 == triIdx[i + 1]
        p1 == triIdx[((i + 1) % 3) + 1]
        rotation == IF p0 < p1 THEN 1 ELSE -1
        pt_min == IF p0 < p1 THEN p0 ELSE p1
        pt_max == IF p0 < p1 THEN p1 ELSE p0
        h == hash(pt_min, pt_max)
        count == (IF h \in DOMAIN acc.edgeCount THEN acc.edgeCount[h] ELSE 0) + 1
    IN IF count = 1
       THEN [edgeCount |-> Put(acc.edgeCount, h, count),
             edgePoints |-> Put(acc.edgePoints, h, <<pt_min, pt_max, rotation, cellId, i>>),
             edgeNum |-> acc.edgeNum + 1]
       ELSE IF count = 2
       THEN [edgeCount |-> Drop(acc.edgeCount, h),
             edgePoints |-> Drop(acc.edgePoints, h),
             edgeNum |-> acc.edgeNum]
       ELSE [acc EXCEPT !.edgeCount = Put(acc.edgeCount, h, count)]

RECURSIVE EdgeScan(_, _, _)
\* the first pass: sides k = 3*cellId + i, in order
EdgeScan(acc, pd, k) ==
    IF k >= 3 * NumberOfPolys(pd) THEN acc
    ELSE EdgeScan(EdgeVisit(acc, pd, k \div 3, k % 3), pd, k + 1)

EmptyFn == [x \in {} |-> 0]

EdgeTable(pd) ==
    EdgeScan([edgeCount |-> EmptyFn, edgePoints |-> EmptyFn, edgeNum |-> 0], pd, 0)

\* AdjAdd that starts a new Set for the point on every call
AdjAdd_NewSetEachTime(adj, p, entry) ==
    IF p \in Range(adj.keys)
    THEN [adj EXCEPT !.sets[p] = <<entry>>]
    ELSE [keys |-> Append(adj.keys, p), sets |-> Put(adj.sets, p, <<entry>>)]

\* adjacencyMap.get(p).add(entry), creating the Set on first use; a JS Map and
\* a JS Set of arrays keep insertion order and never merge two arrays
AdjAdd(adj, p, entry) ==
    IF p \in Range(adj.keys)
    THEN [adj EXCEPT !.sets[p] = Append(@, entry)]
    ELSE [keys |-> Append(adj.keys, p), sets |-> Put(adj.sets, p, <<entry>>)]

RECURSIVE ExtractEdges(_, _, _)
\* ExtractEdges that files an edge under its smaller endpoint only
ExtractEdges_SmallerEndOnly(out, edgePoints, hs) ==
    IF hs = <<>> THEN out
    ELSE LET e == edgePoints[Head(hs)]
             a1 == AdjAdd(out.adjacencyMap, e[1], <<e[2], e[3], e[4], e[5]>>)
         IN ExtractEdges([boundaryEdges |-> Append(out.boundaryEdges, <<e[1], e[2]>>),
                          adjacencyMap |-> a1], edgePoints, Tail(hs))

\* for (const h in edgeCount): integer-like keys come in ascending order
ExtractEdges(out, edgePoints, hs) ==
    IF hs = <<>> THEN out
    ELSE LET e == edgePoints[Head(hs)]
             p0 == e[1]
             p1 == e[2]
             rotation == e[3]
             cellId == e[4]
             side == e[5]
             a1 == AdjAdd(out.adjacencyMap, p0, <<p1, rotation, cellId, side>>)
             a2 == AdjAdd(a1, p1, <<p0, -rotation, cellId, side>>)
         IN ExtractEdges([boundaryEdges |-> Append(out.boundaryEdges, <<p0, p1>>),
                          adjacencyMap |-> a2], edgePoints, Tail(hs))

EmptyAdjacency == [keys |-> <<>>, sets |-> EmptyFn]

detectBoundaryEdgesSTLWithAdjacency(pd) ==
    LET tab == EdgeTable(pd)
    IN ExtractEdges([boundaryEdges |-> <<>>, adjacencyMap |-> EmptyAdjacency],
                    tab.edgePoints, Ascending(DOMAIN tab.edgeCount))

\* adjacencyMap.get(p) as a sequence (empty when absent)
Neighbors(adj, p) == IF p \in DOMAIN adj.sets THEN adj.sets[p] ELSE <<>>

(***************************************************************************)
(* Vector arithmetic on integer coordinates                                *)
(***************************************************************************)
Sub(a, b) == <<a[1] - b[1], a[2] - b[2], a[3] - b[3]>>

Dot(a, b) == a[1] * b[1] + a[2] * b[2] + a[3] * b[3]

Cross(a, b) ==
    <<a[2] * b[3] - a[3] * b[2], a[3] * b[1] - a[1] * b[3], a[1] * b[2] - a[2] * b[1]>>

\* squared Euclidean distance of two points
DistSq(a, b) == Dot(Sub(a, b), Sub(a, b))

(***************************************************************************)
(* detectSharpCornersWithMap                                               *)
(***************************************************************************)
\* Math.cos(angleThreshold * Math.PI / 180) as sign and squared value num/den,
\* for the thresholds the model draws; cos(100 deg)^2 = 0.0301536896 is taken
\* as 104/3449 = 0.0301536677
CosThreshold(th) ==
    IF th = 30 THEN [sign |-> 1, num |-> 3, den |-> 4]
    ELSE IF th = 60 THEN [sign |-> 1, num |-> 1, den |-> 4]
    ELSE IF th = 100 THEN [sign |-> -1, num |-> 104, den |-> 3449]
    ELSE [sign |-> 1, num |-> 0, den |-> 1]          \* 90: cos = 6.1e-17 > 0

\* x > (num / den) * m for naturals, without forming products beyond 32 bits
FracAbove(x, num, den, m) == x > num * (m \div den) + ((num * (m % den)) \div den)

\* x < (num / den) * m for naturals
FracBelow(x, num, den, m) ==
    x < num * (m \div den) + ((num * (m % den) + den - 1) \div den)

\* the comparison turned round: dot < cosThreshold
DotAbove_Reversed(d, l1sq, l2sq, c) ==
    IF c.sign >= 0
    THEN d <= 0 \/ FracBelow(d * d, c.num, c.den, l1sq * l2sq)
    ELSE d < 0 /\ FracAbove(d * d, c.num, c.den, l1sq * l2sq)

\* dot > cosThreshold, where dot = d / sqrt(l1sq * l2sq)
DotAbove(d, l1sq, l2sq, c) ==
    IF c.sign >= 0
    THEN d > 0 /\ FracAbove(d * d, c.num, c.den, l1sq * l2sq)
    ELSE d >= 0 \/ FracBelow(d * d, c.num, c.den, l1sq * l2sq)

\* Math.acos(clamp(dot)) * 180 / PI, rounded down to a multiple of 30 degrees
AngleDegrees(d, l1sq, l2sq) ==
    LET q == d * d * 4
        m == l1sq * l2sq
    IN IF d > 0
       THEN (IF q > 3 * m THEN 0 ELSE IF q > m THEN 30 ELSE 60)
       ELSE IF d = 0 THEN 90
       ELSE (IF q < m THEN 90 ELSE IF q < 3 * m THEN 120
             ELSE IF q < 4 * m THEN 150 ELSE 180)

\* CornerOf without the branch for more than two neighbours
CornerOf_NoJunctionBranch(pd, adj, pointId, th) ==
    LET neighbors == adj.sets[pointId]
        p == PointCoord(pd, pointId)
    IN IF Len(neighbors) >= 2
       THEN LET n1 == neighbors[1][1]
                n2 == neighbors[2][1]
                v1 == Sub(PointCoord(pd, n1), p)
                v2 == Sub(PointCoord(pd, n2), p)
                len1sq == Dot(v1, v1)
                len2sq == Dot(v2, v2)
                d == Dot(v1, v2)
            IN IF len1sq = 0 \/ len2sq = 0 THEN <<>>
               ELSE IF DotAbove(d, len1sq, len2sq, CosThreshold(th))
               THEN <<[pointId |-> pointId, position |-> p,
                       angle |-> AngleDegrees(d, len1sq, len2sq),
                       neighbors |-> <<n1, n2>>]>>
               ELSE <<>>
       ELSE <<>>

\* the body of adjacencyMap.forEach for one boundary point: the corners it adds
CornerOf(pd, adj, pointId, th) ==
    LET neighbors == adj.sets[pointId]
        p == PointCoord(pd, pointId)
    IN IF Len(neighbors) = 2
       THEN LET n1 == neighbors[1][1]
                n2 == neighbors[2][1]
                v1 == Sub(PointCoord(pd, n1), p)
                v2 == Sub(PointCoord(pd, n2), p)
                len1sq == Dot(v1, v1)
                len2sq == Dot(v2, v2)
                d == Dot(v1, v2)
            IN IF len1sq = 0 \/ len2sq = 0 THEN <<>>
               ELSE IF DotAbove(d, len1sq, len2sq, CosThreshold(th))
               THEN <<[pointId |-> pointId, position |-> p,
                       angle |-> AngleDegrees(d, len1sq, len2sq),
                       neighbors |-> <<n1, n2>>]>>
               ELSE <<>>
       ELSE IF Len(neighbors) > 2
       THEN <<[pointId |-> pointId, position |-> p, angle |-> -1,
               neighbors |-> [k \in DOMAIN neighbors |-> neighbors[k][1]]]>>
       ELSE <<>>

detectSharpCornersWithMap(pd, bd, th) ==
    Flatten([k \in DOMAIN bd.adjacencyMap.keys |->
                CornerOf(pd, bd.adjacencyMap, bd.adjacencyMap.keys[k], th)])

(***************************************************************************)
(* detechBoundaryPolylines                                                 *)
(***************************************************************************)
\* neighborCells.has(c) && neighborCells.get(c)[a] === 1
SideMarked(neighborCells, c, a) ==
    c \in DOMAIN neighborCells /\ neighborCells[c][a + 1] = 1

\* markCellSide that reports success without recording the side
markCellSide_NoRecord(neighborCells, cellId, sideId) ==
    IF cellId \in DOMAIN neighborCells /\ neighborCells[cellId][sideId + 1] = 1
    THEN [ok |-> FALSE, cells |-> neighborCells]
    ELSE [ok |-> TRUE, cells |-> neighborCells]

\* markCellSide without the test for a side that is claimed already
markCellSide_Reclaim(neighborCells, cellId, sideId) ==
    IF cellId \notin DOMAIN neighborCells
    THEN [ok |-> TRUE,
          cells |-> Put(neighborCells, cellId,
                        [k \in 1..3 |-> IF k = sideId + 1 THEN 1 ELSE 0])]
    ELSE [ok |-> TRUE,
          cells |-> [neighborCells EXCEPT ![cellId][sideId + 1] = 1]]

\* markCellSide: the return value and the visitation record afterwards
markCellSide(neighborCells, cellId, sideId) ==
    IF cellId \notin DOMAIN neighborCells
    THEN [ok |-> TRUE,
          cells |-> Put(neighborCells, cellId,
                        [k \in 1..3 |-> IF k = sideId + 1 THEN 1 ELSE 0])]
    ELSE IF neighborCells[cellId][sideId + 1] = 1
    THEN [ok |-> FALSE, cells |-> neighborCells]
    ELSE [ok |-> TRUE,
          cells |-> [neighborCells EXCEPT ![cellId][sideId + 1] = 1]]

RECURSIVE tracePolyline(_, _, _)
RECURSIVE TraceEntries(_, _, _, _, _)
\* tracePolyline without the test cornerIds.includes(neighborId)
tracePolyline_ThroughCorners(st, adj, cornerIds) ==
    IF Len(st.polyLine) < 2 THEN st
    ELSE LET neighborId == st.polyLine[Len(st.polyLine)][1]
         IN IF Len(Neighbors(adj, neighborId)) # 2
            THEN st
            ELSE TraceEntries(st, adj, cornerIds, neighborId, 1)

\* tracePolyline that never walks past the first edge of a polyline
tracePolyline_StopAtFirstEdge(st, adj, cornerIds) == st

\* st = [polyLine, neighborCells, done, steps]: the polyline being grown, the
\* shared visitation record, the finished polylines and the number of pushes
tracePolyline(st, adj, cornerIds) ==
    IF Len(st.polyLine) < 2 THEN st
    ELSE LET neighborId == st.polyLine[Len(st.polyLine)][1]
         IN IF neighborId \in cornerIds \/ Len(Neighbors(adj, neighborId)) # 2
            THEN st
            ELSE TraceEntries(st, adj, cornerIds, neighborId, 1)

\* adjacencyMap.get(neighborId).forEach, from its k-th entry on
TraceEntries(st, adj, cornerIds, neighborId, k) ==
    IF k > Len(Neighbors(adj, neighborId)) THEN st
    ELSE LET e == Neighbors(adj, neighborId)[k]
             n == e[1]
             c == e[3]
             a == e[4]
             prevId == st.polyLine[Len(st.polyLine) - 1][1]
             m == markCellSide(st.neighborCells, c, a)
         IN IF n = prevId \/ SideMarked(st.neighborCells, c, a)
            THEN TraceEntries(st, adj, cornerIds, neighborId, k + 1)
            ELSE IF ~m.ok
            THEN TraceEntries(st, adj, cornerIds, neighborId, k + 1)
            ELSE TraceEntries(
                     tracePolyline([st EXCEPT !.polyLine = Append(@, e),
                                              !.neighborCells = m.cells,
                                              !.steps = @ + 1],
                                   adj, cornerIds),
                     adj, cornerIds, neighborId, k + 1)

\* TraceFromCorner without the two tests for a side that is claimed already
TraceFromCorner_NoSkip(st, adj, cornerIds, cornerId, e) ==
    LET m == markCellSide_Reclaim(st.neighborCells, e[3], e[4])
        t == tracePolyline(
                 [st EXCEPT !.polyLine = <<<<cornerId, e[2], e[3], e[4]>>,
                                           <<e[1], e[2], e[3], e[4]>>>>,
                            !.neighborCells = m.cells,
                            !.steps = @ + 1],
                 adj, cornerIds)
    IN [t EXCEPT !.done = Append(@, t.polyLine)]

\* the body of Array.from(neighbors).forEach for one entry of one corner
TraceFromCorner(st, adj, cornerIds, cornerId, e) ==
    LET neighborId == e[1]
        rotation == e[2]
        cellId == e[3]
        sideId == e[4]
        m == markCellSide(st.neighborCells, cellId, sideId)
    IN IF SideMarked(st.neighborCells, cellId, sideId) THEN st
       ELSE IF ~m.ok THEN st
       ELSE LET t == tracePolyline(
                        [st EXCEPT !.polyLine = <<<<cornerId, rotation, cellId, sideId>>,
                                                  <<neighborId, rotation, cellId, sideId>>>>,
                                   !.neighborCells = m.cells,
                                   !.steps = @ + 1],
                        adj, cornerIds)
            IN [t EXCEPT !.done = Append(@, t.polyLine)]

RECURSIVE TraceCornerEntries(_, _, _, _, _)
TraceCornerEntries(st, adj, cornerIds, cornerId, k) ==
    IF k > Len(Neighbors(adj, cornerId)) THEN st
    ELSE TraceCornerEntries(
             TraceFromCorner(st, adj, cornerIds, cornerId, Neighbors(adj, cornerId)[k]),
             adj, cornerIds, cornerId, k + 1)

RECURSIVE TraceCorners(_, _, _, _)
\* corners.forEach
TraceCorners(st, adj, cs, k) ==
    IF k > Len(cs) THEN st
    ELSE TraceCorners(
             TraceCornerEntries(st, adj, {cs[i].pointId : i \in DOMAIN cs},
                                cs[k].pointId, 1),
             adj, cs, k + 1)

detechBoundaryPolylines(pd, bd, cs) ==
    LET st == TraceCorners([polyLine |-> <<>>, neighborCells |-> EmptyFn,
                            done |-> <<>>, steps |-> 0],
                           bd.adjacencyMap, cs, 1)
    IN [polyLineArray |-> st.done, neighborCells |-> st.neighborCells,
        steps |-> st.steps]

(***************************************************************************)
(* point2SegmentDistance and coupleTwoPolyLines                            *)
(***************************************************************************)
\* distance is kept squared, as a fraction; t is the unclamped parameter
point2SegmentDistance(point, segment) ==
    LET p0 == segment[1]
        p1 == segment[2]
        v == Sub(p1, p0)
        w == Sub(point, p0)
        dot_w_v == Dot(w, v)
        dot_v_v == Dot(v, v)
        inv2 == PROXIMITY_TOLERANCE_INV * PROXIMITY_TOLERANCE_INV
    IN IF DistSq(point, p0) * inv2 <= 1
       THEN [distance |-> <<0, 1>>, t |-> <<0, 1>>]
       ELSE IF DistSq(point, p1) * inv2 <= 1
       THEN [distance |-> <<0, 1>>, t |-> <<1, 1>>]
       \* dot_v_v < tolerance, both in source units
       ELSE IF dot_v_v * PROXIMITY_TOLERANCE_INV < UNITS_PER_ONE
       THEN [distance |-> <<Dot(w, w), 1>>, t |-> <<0, 1>>]
       ELSE IF dot_w_v < 0
       THEN [distance |-> <<Dot(w, w), 1>>, t |-> <<dot_w_v, dot_v_v>>]
       ELSE IF dot_w_v > dot_v_v
       THEN [distance |-> <<DistSq(point, p1), 1>>, t |-> <<dot_w_v, dot_v_v>>]
       ELSE [distance |-> <<Dot(w, w) * dot_v_v - dot_w_v * dot_w_v, dot_v_v>>,
             t |-> <<dot_w_v, dot_v_v>>]

\* distance <= tolerance && t >= 0 && t <= 1
Accepted(r, tolerance) ==
    /\ r.distance[1] <= tolerance * tolerance * r.distance[2]
    /\ r.t[1] >= 0
    /\ r.t[1] <= r.t[2]

\* extractPoints: one [cellId, sideId, pointIds, pointCords] per element after the first
extractPoints(pd, polyLine) ==
    [k \in 1..(Len(polyLine) - 1) |->
        LET cellId == polyLine[k + 1][3]
            sideId == polyLine[k + 1][4]
            triIds == TriIds(pd, cellId)
            pointIds == SubSeq(triIds \o <<triIds[1]>>, sideId + 1, sideId + 2)
        IN [cellId |-> cellId, sideId |-> sideId, pointIds |-> pointIds,
            pointCords |-> <<PointCoord(pd, pointIds[1]), PointCoord(pd, pointIds[2])>>]]

\* cellMap.get(cellId)[sideId].add([t, pointId]), creating the entry on first use
CellMapAdd(cellMap, cellId, sideId, rec) ==
    IF cellId \in Range(cellMap.keys)
    THEN [cellMap EXCEPT !.sets[cellId][sideId + 1] = Append(@, rec)]
    ELSE [keys |-> Append(cellMap.keys, cellId),
          sets |-> Put(cellMap.sets, cellId,
                       [k \in 1..3 |-> IF k = sideId + 1 THEN <<rec>> ELSE <<>>])]

RECURSIVE ProjectPoint(_, _, _, _, _, _)
\* ProjectPoint with segments2.forEach: every accepting segment records the point
ProjectPoint_EverySegment(cellMap, pd, pointId, segments2, k, tolerance) ==
    IF k > Len(segments2) THEN cellMap
    ELSE LET seg == segments2[k]
             r == point2SegmentDistance(PointCoord(pd, pointId), seg.pointCords)
         IN ProjectPoint(
                IF Accepted(r, tolerance)
                THEN CellMapAdd(cellMap, seg.cellId, seg.sideId, <<r.t, pointId>>)
                ELSE cellMap,
                pd, pointId, segments2, k + 1, tolerance)

\* segments2.some(...): the first accepting segment records the point and stops
ProjectPoint(cellMap, pd, pointId, segments2, k, tolerance) ==
    IF k > Len(segments2) THEN cellMap
    ELSE LET seg == segments2[k]
             r == point2SegmentDistance(PointCoord(pd, pointId), seg.pointCords)
         IN IF Accepted(r, tolerance)
            THEN CellMapAdd(cellMap, seg.cellId, seg.sideId, <<r.t, pointId>>)
            ELSE ProjectPoint(cellMap, pd, pointId, segments2, k + 1, tolerance)

RECURSIVE ProjectInternals(_, _, _, _, _, _)
\* internals1.forEach
ProjectInternals(cellMap, pd, polyLine1, segments2, k, tolerance) ==
    IF k > Len(polyLine1) - 1 THEN cellMap
    ELSE ProjectInternals(
             ProjectPoint(cellMap, pd, polyLine1[k][1], segments2, 1, tolerance),
             pd, polyLine1, segments2, k + 1, tolerance)

\* the cellMap after coupleTwoPolyLines(polyData, polyLine1, polyLine2, cellMap, tolerance);
\* internals1 = polyLine1.slice(1, -1) are the elements 2 .. Len - 1
coupleTwoPolyLines(pd, polyLine1, polyLine2, cellMap, tolerance) ==
    IF Len(polyLine1) - 2 <= 0 THEN cellMap
    ELSE ProjectInternals(cellMap, pd, polyLine1, extractPoints(pd, polyLine2), 2, tolerance)

(***************************************************************************)
(* calTriArea, refineTriangle, reTriangulateCells                          *)
(***************************************************************************)
\* (2 * area)^2: the squared magnitude of the cross product of the two edge vectors
calTriArea(p0, p1, p2) ==
    LET crossProduct == Cross(Sub(p1, p0), Sub(p2, p0))
    IN Dot(crossProduct, crossProduct)

\* area > GEOMETRY_TOLERANCES.MIN_TRIANGLE_AREA
AreaAboveMin(p0, p1, p2) ==
    calTriArea(p0, p1, p2) > 4 * MIN_TRIANGLE_AREA * MIN_TRIANGLE_AREA

\* FanOfSide without the test area > MIN_TRIANGLE_AREA
FanOfSide_NoAreaFilter(side, apex, pd) ==
    [k \in 1..(Len(side) - 2) |-> <<side[k], side[k + 1], apex>>]

\* FanOfSide with the loop bound length - 1: the last pair of the side is fanned too
FanOfSide_WithLastPair(side, apex, pd) ==
    LET keep == {segId \in 0..(Len(side) - 2) :
                    AreaAboveMin(PointCoord(pd, side[segId + 1]),
                                 PointCoord(pd, side[segId + 2]),
                                 PointCoord(pd, apex))}
    IN [k \in 1..Cardinality(keep) |->
           LET segId == Ascending(keep)[k]
           IN <<side[segId + 1], side[segId + 2], apex>>]

\* FanOfSide pushing [p1, p0, apex]
FanOfSide_SwappedPair(side, apex, pd) ==
    LET keep == {segId \in 0..(Len(side) - 3) :
                    AreaAboveMin(PointCoord(pd, side[segId + 1]),
                                 PointCoord(pd, side[segId + 2]),
                                 PointCoord(pd, apex))}
    IN [k \in 1..Cardinality(keep) |->
           LET segId == Ascending(keep)[k]
           IN <<side[segId + 2], side[segId + 1], apex>>]

\* the triangles [p0, p1, apex] pushed by the inner loop over segId for one side
FanOfSide(side, apex, pd) ==
    LET keep == {segId \in 0..(Len(side) - 3) :
                    AreaAboveMin(PointCoord(pd, side[segId + 1]),
                                 PointCoord(pd, side[segId + 2]),
                                 PointCoord(pd, apex))}
    IN [k \in 1..Cardinality(keep) |->
           LET segId == Ascending(keep)[k]
           IN <<side[segId + 1], side[segId + 2], apex>>]

RECURSIVE RefineSides(_, _, _, _)
\* the loop over sideId; acc = [triangles, inner]
RefineSides(acc, orderedPoints, pd, sideId) ==
    IF sideId >= 3 THEN acc
    ELSE LET oppositeSide == orderedPoints[((sideId + 2) % 3) + 1]
         IN IF Len(oppositeSide) < 2
            THEN RefineSides(acc, orderedPoints, pd, sideId + 1)
            ELSE LET apex == oppositeSide[Len(oppositeSide) - 1]
                 IN RefineSides(
                        [triangles |-> acc.triangles
                                         \o FanOfSide(orderedPoints[sideId + 1], apex, pd),
                         inner |-> Append(acc.inner, apex)],
                        orderedPoints, pd, sideId + 1)

\* refineTriangle without the central triangle of the three apexes
refineTriangle_NoCentral(orderedPoints, pd) ==
    RefineSides([triangles |-> <<>>, inner |-> <<>>], orderedPoints, pd, 0).triangles

\* the triangles returned for one cell: the fans of the three sides, then the
\* central triangle when three apexes were collected
refineTriangle(orderedPoints, pd) ==
    LET r == RefineSides([triangles |-> <<>>, inner |-> <<>>], orderedPoints, pd, 0)
    IN IF Len(r.inner) = 3 THEN Append(r.triangles, r.inner) ELSE r.triangles

\* a[0] - b[0] < 0 for two [t, pointId] records
TLess(a, b) == a[1][1] * b[1][2] < b[1][1] * a[1][2]

RECURSIVE SortByT(_)
\* Array.prototype.sort with (a, b) => a[0] - b[0]: stable, ascending in t
SortByT(recs) ==
    IF recs = <<>> THEN <<>>
    ELSE LET rest == SortByT(SubSeq(recs, 1, Len(recs) - 1))
             x == recs[Len(recs)]
             before == {i \in DOMAIN rest : ~TLess(x, rest[i])}
             n == Cardinality(before)
         IN SubSeq(rest, 1, n) \o <<x>> \o SubSeq(rest, n + 1, Len(rest))

\* OrderedPoints reading the side's start without skipping the cell size
OrderedPoints_SizeAsStart(pd, info, cellId) ==
    [s \in 1..3 |->
        LET sideId == s - 1
            start_point == CellDataAt(pd, cellId * 4 + sideId)
            end_point == CellDataAt(pd, cellId * 4 + 1 + ((sideId + 1) % 3))
            sorted == SortByT(info[s])
            follow_point == [k \in DOMAIN sorted |-> sorted[k][2]]
        IN <<start_point>> \o follow_point \o <<end_point>>]

\* OrderedPoints without the push of end_point
OrderedPoints_NoEndPoint(pd, info, cellId) ==
    [s \in 1..3 |->
        LET sorted == SortByT(info[s])
        IN <<CellDataAt(pd, cellId * 4 + 1 + (s - 1))>>
               \o [k \in DOMAIN sorted |-> sorted[k][2]]]

\* orderedPoints of one flagged cell: [start, splits ascending by t, end] per side
OrderedPoints(pd, info, cellId) ==
    [s \in 1..3 |->
        LET sideId == s - 1
            start_point == CellDataAt(pd, cellId * 4 + 1 + sideId)
            end_point == CellDataAt(pd, cellId * 4 + 1 + ((sideId + 1) % 3))
            sorted == SortByT(info[s])
            follow_point == [k \in DOMAIN sorted |-> sorted[k][2]]
        IN <<start_point>> \o follow_point \o <<end_point>>]

\* the triangles that replace one flagged cell
NewTriangles(pd, sm, cellId) ==
    refineTriangle(OrderedPoints(pd, sm.sets[cellId], cellId), pd)

\* cells_to_add.getData(): 3, a, b, c for every new triangle, in stitchMap order
CellsToAdd(pd, sm) ==
    Flatten([k \in DOMAIN sm.keys |->
        LET tris == NewTriangles(pd, sm, sm.keys[k])
        IN Flatten([j \in DOMAIN tris |-> <<3>> \o tris[j]])])

\* the copy loop without the test on cells_to_remove
UnchangedCells_KeepAll(pd, sm) ==
    Flatten([c \in 1..NumberOfPolys(pd) |->
        SubSeq(pd.polys, (c - 1) * 4 + 1, (c - 1) * 4 + 4)])

\* the copy loop stopping one cell early
UnchangedCells_DropLast(pd, sm) ==
    Flatten([c \in 1..(NumberOfPolys(pd) - 1) |->
        IF (c - 1) \in Range(sm.keys) THEN <<>>
        ELSE SubSeq(pd.polys, (c - 1) * 4 + 1, (c - 1) * 4 + 4)])

\* the copy loop: cells not in cells_to_remove, in cell order
UnchangedCells(pd, sm) ==
    Flatten([c \in 1..NumberOfPolys(pd) |->
        IF (c - 1) \in Range(sm.keys) THEN <<>>
        ELSE SubSeq(pd.polys, (c - 1) * 4 + 1, (c - 1) * 4 + 4)])

\* reTriangulateCells that also installs the new cells in the polyData passed
\* in (polyData.setPolys(finalCells))
reTriangulateCells_InPlace(pd, sm) ==
    [polyData |-> [pd EXCEPT !.polys = UnchangedCells(pd, sm) \o CellsToAdd(pd, sm)],
     cleanedPolyData |-> [points |-> pd.points,
                          polys |-> UnchangedCells(pd, sm) \o CellsToAdd(pd, sm)]]

\* the polyData passed in, as the call leaves it, and the polyData returned
reTriangulateCells(pd, sm) ==
    [polyData |-> pd,
     cleanedPolyData |-> [points |-> pd.points,
                          polys |-> UnchangedCells(pd, sm) \o CellsToAdd(pd, sm)]]

(***************************************************************************)
(* stitchEdge                                                              *)
(***************************************************************************)
\* the key `${first_id}-${last_id}` of one polyline, as a pair
EndpointKey(polyLine) ==
    <<Min2(polyLine[1][1], polyLine[Len(polyLine)][1]),
      Max2(polyLine[1][1], polyLine[Len(polyLine)][1])>>

RECURSIVE PolyLineMap(_, _, _)
\* polyLineMap: keys in insertion order, each with its 0-based polyline indices
PolyLineMap(plm, polyLineArray, k) ==
    IF k > Len(polyLineArray) THEN plm
    ELSE LET key == EndpointKey(polyLineArray[k])
         IN PolyLineMap(
                IF key \in Range(plm.keys)
                THEN [plm EXCEPT !.groups[key] = Append(@, k - 1)]
                ELSE [keys |-> Append(plm.keys, key),
                      groups |-> Put(plm.groups, key, <<k - 1>>)],
                polyLineArray, k + 1)

\* GroupCalls with the inner loop starting at j = i
GroupCalls_FromSelf(indexArray) ==
    Flatten([i \in DOMAIN indexArray |->
        Flatten([j \in DOMAIN indexArray |->
            IF j >= i
            THEN <<<<indexArray[i], indexArray[j]>>, <<indexArray[j], indexArray[i]>>>>
            ELSE <<>>])])

\* the calls of coupleTwoPolyLines made for one group, in order, as pairs
\* <<projected polyline index, target polyline index>>
GroupCalls(indexArray) ==
    Flatten([i \in DOMAIN indexArray |->
        Flatten([j \in DOMAIN indexArray |->
            IF j > i
            THEN <<<<indexArray[i], indexArray[j]>>, <<indexArray[j], indexArray[i]>>>>
            ELSE <<>>])])

\* every call of coupleTwoPolyLines of one stitchEdge run, in order
CoupleCalls(polyLineArray) ==
    LET plm == PolyLineMap([keys |-> <<>>, groups |-> EmptyFn], polyLineArray, 1)
    IN Flatten([k \in DOMAIN plm.keys |-> GroupCalls(plm.groups[plm.keys[k]])])

RECURSIVE RunCalls(_, _, _, _, _)
RunCalls(cellMap, pd, polyLineArray, calls, k) ==
    IF k > Len(calls) THEN cellMap
    ELSE RunCalls(
             coupleTwoPolyLines(pd, polyLineArray[calls[k][1] + 1],
                                polyLineArray[calls[k][2] + 1], cellMap,
                                POLYLINE_DISTANCE_TOLERANCE),
             pd, polyLineArray, calls, k + 1)

EmptyCellMap == [keys |-> <<>>, sets |-> EmptyFn]

\* the stitchMap stitchEdge builds before it retriangulates
BuildStitchMap(pd, polyLineArray) ==
    RunCalls(EmptyCellMap, pd, polyLineArray, CoupleCalls(polyLineArray), 1)

\* [stitchMap, polyData (the argument afterwards), cleanedPolyData (the result)]
stitchEdge(pd, polyLineArray) ==
    LET sm == BuildStitchMap(pd, polyLineArray)
        r == reTriangulateCells(pd, sm)
    IN [stitchMap |-> sm, polyData |-> r.polyData,
        cleanedPolyData |-> r.cleanedPolyData]

(***************************************************************************)
(* mergeClosePointsManual (mergePoints.js)                                 *)
(***************************************************************************)
\* `${ix},${iy},${iz}` with ix = Math.floor(x / gridSize), as a triple
getHashKey(x, y, z, gridSize) == <<x \div gridSize, y \div gridSize, z \div gridSize>>

\* the offsets <<dx, dy, dz>> in the order of the three nested loops
NeighborOffsets == [k \in 1..27 |-> <<((k - 1) \div 9) - 1, (((k - 1) \div 3) % 3) - 1, ((k - 1) % 3) - 1>>]

\* the loops over dx, dy, dz visiting the point's own grid cell only
CandidateIds_OwnCellOnly(acc, pt, tolerance) ==
    LET key == getHashKey(pt[1], pt[2], pt[3], tolerance)
    IN IF key \in DOMAIN acc.spatialHash THEN acc.spatialHash[key] ELSE <<>>

\* the candidate ids in the order the loops meet them: the 27 grid cells
\* around the point, each bucket in insertion order
CandidateIds(acc, pt, tolerance) ==
    LET key == getHashKey(pt[1], pt[2], pt[3], tolerance)
    IN Flatten([k \in 1..27 |->
           LET neighborKey == <<key[1] + NeighborOffsets[k][1],
                                key[2] + NeighborOffsets[k][2],
                                key[3] + NeighborOffsets[k][3]>>
           IN IF neighborKey \in DOMAIN acc.spatialHash
              THEN acc.spatialHash[neighborKey] ELSE <<>>])

\* dist <= tolerance, on squares
WithinTolerance(p, q, tolerance) == DistSq(p, q) <= tolerance * tolerance

\* one iteration of the loop over the input points (tolerance > 0)
MergeStep(acc, pt, tolerance) ==
    LET cands == CandidateIds(acc, pt, tolerance)
        hits == {k \in DOMAIN cands :
                    WithinTolerance(pt, acc.newPoints[cands[k] + 1], tolerance)}
        hashKey == getHashKey(pt[1], pt[2], pt[3], tolerance)
        newId == Len(acc.newPoints)
    IN IF hits # {}
       THEN [acc EXCEPT !.pointMap = Append(@, cands[CHOOSE k \in hits : \A j \in hits : k <= j])]
       ELSE [newPoints |-> Append(acc.newPoints, pt),
             pointMap |-> Append(acc.pointMap, newId),
             spatialHash |->
                 Put(acc.spatialHash, hashKey,
                     IF hashKey \in DOMAIN acc.spatialHash
                     THEN Append(acc.spatialHash[hashKey], newId) ELSE <<newId>>)]

\* one iteration of the fast path for tolerance === 0: exact coordinate keys
ExactStep(acc, pt) ==
    IF pt \in DOMAIN acc.spatialHash
    THEN [acc EXCEPT !.pointMap = Append(@, acc.spatialHash[pt])]
    ELSE [newPoints |-> Append(acc.newPoints, pt),
          pointMap |-> Append(acc.pointMap, Len(acc.newPoints)),
          spatialHash |-> Put(acc.spatialHash, pt, Len(acc.newPoints))]

RECURSIVE MergeLoop(_, _, _, _)
MergeLoop(acc, points, tolerance, i) ==
    IF i > Len(points) THEN acc
    ELSE MergeLoop(IF tolerance = 0 THEN ExactStep(acc, points[i])
                   ELSE MergeStep(acc, points[i], tolerance),
                   points, tolerance, i + 1)

\* remapPolyDataPoints: the cell array with every point id sent through pointMap
remapPolyDataPoints(polys, pointMap) ==
    [k \in DOMAIN polys |-> IF k % 4 = 1 THEN polys[k] ELSE pointMap[polys[k] + 1]]

\* pointMap (old id i is entry i + 1), the kept points and the remapped cells
mergeClosePointsManual(pd, tolerance) ==
    LET r == MergeLoop([newPoints |-> <<>>, pointMap |-> <<>>, spatialHash |-> EmptyFn],
                       pd.points, tolerance, 1)
    IN [pointMap |-> r.pointMap, newPoints |-> r.newPoints,
        polys |-> remapPolyDataPoints(pd.polys, r.pointMap)]

(***************************************************************************)
(* Inputs: the meshes the pipeline is run on                               *)
(***************************************************************************)
\* settings.angleThreshold values drawn (the slider runs from 5 to 90)
AngleThresholds == {30, 90}

\* five points: 0 = (0,0) and 1 = (100,0), point 2 at height 1 over the middle
\* of the segment 0-1, and the apexes 3 above and 4 below
PointTable ==
    <<<<0, 0, 0>>, <<100, 0, 0>>, <<50, 1, 0>>, <<50, 50, 0>>, <<50, -50, 0>>>>

PointIds == 0..(Len(PointTable) - 1)

\* removeDegenerateCells has run: three distinct ids, not collinear
ValidTriangle(pts, tri) ==
    /\ tri[1] # tri[2] /\ tri[2] # tri[3] /\ tri[1] # tri[3]
    /\ calTriArea(pts[tri[1] + 1], pts[tri[2] + 1], pts[tri[3] + 1]) > 0

\* every vertex set in both orientations, written from its smallest id
TrianglePool ==
    {tri \in PointIds \X PointIds \X PointIds :
        /\ ValidTriangle(PointTable, tri)
        /\ tri[1] < tri[2] /\ tri[1] < tri[3]}

\* the vertex set of a triangle as a number
VertexSetKey(tri) == 2 ^ tri[1] + 2 ^ tri[2] + 2 ^ tri[3]

\* triangle lists of up to MaxCells cells over the point table, cells listed
\* by nondecreasing vertex set (the same vertex set may repeat)
MeshInputs ==
    UNION {{tris \in [1..n -> TrianglePool] :
               \A i \in 1..(n - 1) : VertexSetKey(tris[i]) <= VertexSetKey(tris[i + 1])}
           : n \in 0..MaxCells}

\* x positions of the interior points of a slit chain between (0,0) and (100,0)
SlitXs == <<35, 50, 65>>

\* chains of up to MaxInterior interior points, left to right, at heights ys
Chains(ys) ==
    UNION {{ch \in [1..n -> (1..Len(SlitXs)) \X ys] :
               \A i \in 1..(n - 1) : ch[i][1] < ch[i + 1][1]}
           : n \in 0..MaxInterior}

\* rotate the vertex order of a triangle by r places
Rotate(tri, r) == [k \in 1..3 |-> tri[((k - 1 + r) % 3) + 1]]

\* a slit from point 0 = (0,0) to point 1 = (100,0): an upper chain fanned
\* from point 2 = (50,50) and a lower chain fanned from point 3 = (50,-50)
SlitMesh(upper, lower, r) ==
    LET nu == Len(upper)
        nl == Len(lower)
        uid == [k \in 1..(nu + 2) |-> IF k = 1 THEN 0 ELSE IF k = nu + 2 THEN 1 ELSE k + 2]
        lid == [k \in 1..(nl + 2) |->
                   IF k = 1 THEN 0 ELSE IF k = nl + 2 THEN 1 ELSE k + 2 + nu]
    IN [points |-> <<<<0, 0, 0>>, <<100, 0, 0>>, <<50, 50, 0>>, <<50, -50, 0>>>>
                   \o [k \in 1..nu |-> <<SlitXs[upper[k][1]], upper[k][2], 0>>]
                   \o [k \in 1..nl |-> <<SlitXs[lower[k][1]], lower[k][2], 0>>],
        polys |-> ThreeToPolys(
                   [k \in 1..(nu + 1) |-> Rotate(<<uid[k], uid[k + 1], 2>>, r)]
                   \o [k \in 1..(nl + 1) |-> Rotate(<<lid[k + 1], lid[k], 3>>, r)])]

\* no two points of a mesh coincide (duplicate points were merged on load)
DistinctPoints(pd) ==
    \A i, j \in DOMAIN pd.points : i # j => pd.points[i] # pd.points[j]

SlitInputs ==
    {pd \in {SlitMesh(u, l, r) : u \in Chains({0, 1, 2}), l \in Chains({0, -1}), r \in 0..2} :
        DistinctPoints(pd)}

NoBoundaryData == [boundaryEdges |-> <<>>, adjacencyMap |-> EmptyAdjacency]

NoTrace == [polyLineArray |-> <<>>, neighborCells |-> EmptyFn, steps |-> 0]

NoPolyData == [points |-> <<>>, polys |-> <<>>]

\* the STL files the user can pick, by the triangle list the viewer gets from
\* each (file ids are 1, 2, ...; 0 stands for null)
FileMeshes ==
    <<<<<<0, 1, 3>>>>,
      <<<<0, 1, 3>>, <<0, 4, 1>>>>,
      <<<<0, 1, 2>>, <<0, 2, 3>>, <<0, 3, 4>>>>>>

FileIds == 1..Len(FileMeshes)

\* useState initial values of App.jsx and STLViewer.jsx; a geometry is named
\* by the file it was parsed from, null is 0 (<<>> for processedData);
\* reads are the FileReader reads under way, effectDue tells that the
\* dependencies of the process effect changed in the last commit; clicks,
\* runs, trigger and last record what happened
InitialApp ==
    [stlFile |-> 0, geometry |-> 0, processedData |-> <<>>, shouldProcess |-> FALSE,
     angleThreshold |-> 30, showMesh |-> TRUE,
     currentIndex |-> -1, isPlaying |-> FALSE,
     viewer |-> [geometry |-> 0, processedData |-> <<>>],
     reads |-> <<>>, effectDue |-> FALSE,
     clicks |-> 0, runs |-> 0, trigger |-> "none", last |-> "none"]

\* no call of mergeClosePointsManual is under way
NoMerge == [tolerance |-> 0, polyData |-> NoPolyData, called |-> FALSE,
            pointMap |-> <<>>, newPoints |-> <<>>, polys |-> <<>>]

(***************************************************************************)
(* The pipeline as a state machine                                         *)
(***************************************************************************)
InitCommon ==
    /\ stage = "loaded"
    /\ angleThreshold \in AngleThresholds
    /\ boundaryData = NoBoundaryData
    /\ corners = <<>>
    /\ traced = NoTrace
    /\ stitchMap = EmptyCellMap
    /\ cleanedPolyData = NoPolyData
    /\ merged = NoMerge
    /\ app = InitialApp

Init ==
    /\ \/ \E tris \in MeshInputs :
              polyData = [points |-> PointTable, polys |-> ThreeToPolys(tris)]
       \/ polyData \in SlitInputs
    /\ InitCommon

DetectBoundary ==
    /\ stage = "loaded"
    /\ boundaryData' = detectBoundaryEdgesSTLWithAdjacency(polyData)
    /\ stage' = "boundary"
    /\ UNCHANGED <<polyData, angleThreshold, corners, traced, stitchMap, cleanedPolyData, merged, app>>

DetectCorners ==
    /\ stage = "boundary"
    /\ corners' = detectSharpCornersWithMap(polyData, boundaryData, angleThreshold)
    /\ stage' = "corners"
    /\ UNCHANGED <<polyData, angleThreshold, boundaryData, traced, stitchMap, cleanedPolyData, merged, app>>

TracePolylines ==
    /\ stage = "corners"
    /\ traced' = detechBoundaryPolylines(polyData, boundaryData, corners)
    /\ stage' = "traced"
    /\ UNCHANGED <<polyData, angleThreshold, boundaryData, corners, stitchMap, cleanedPolyData, merged, app>>

StitchEdge ==
    /\ stage = "traced"
    /\ LET r == stitchEdge(polyData, traced.polyLineArray)
       IN /\ stitchMap' = r.stitchMap
          /\ polyData' = r.polyData
          /\ cleanedPolyData' = r.cleanedPolyData
    /\ stage' = "stitched"
    /\ UNCHANGED <<angleThreshold, boundaryData, corners, traced, merged, app>>

Next == DetectBoundary \/ DetectCorners \/ TracePolylines \/ StitchEdge

Spec == Init /\ [][Next]_vars

(***************************************************************************)
(* The corner pass on its own, over every threshold the function is given  *)
(***************************************************************************)
\* angleThreshold arguments of detectSharpCornersWithMap (default 30)
CornerThresholds == {30, 60, 90, 100}

\* triangle lists of up to MaxCornerCells cells over the point table
CornerMeshInputs ==
    UNION {{tris \in [1..n -> TrianglePool] :
               \A i \in 1..(n - 1) : VertexSetKey(tris[i]) <= VertexSetKey(tris[i + 1])}
           : n \in 0..MaxCornerCells}

InitCorner ==
    /\ \E tris \in CornerMeshInputs :
           polyData = [points |-> PointTable, polys |-> ThreeToPolys(tris)]
    /\ stage = "loaded"
    /\ angleThreshold \in CornerThresholds
    /\ boundaryData = NoBoundaryData
    /\ corners = <<>>
    /\ traced = NoTrace
    /\ stitchMap = EmptyCellMap
    /\ cleanedPolyData = NoPolyData
    /\ merged = NoMerge
    /\ app = InitialApp

NextCorner == DetectBoundary \/ DetectCorners

SpecCorner == InitCorner /\ [][NextCorner]_vars

(***************************************************************************)
(* The React app: App.jsx, STLViewer.jsx, Sidebar.jsx                      *)
(***************************************************************************)
\* the value of a NaN index
NotANumber == -1000

\* if (!geometry || !shouldProcess) return, with the test on shouldProcess left out
ShouldRunProcess_GeometryOnly(geometry, shouldProcess) == geometry # 0

\* the process effect goes on: !(!geometry || !shouldProcess)
ShouldRunProcess(geometry, shouldProcess) == geometry # 0 /\ shouldProcess

\* the data object of the process effect for one geometry: the file it came
\* from and polylines.length
ProcessGeometry(file, th) ==
    LET pd == [points |-> PointTable, polys |-> ThreeToPolys(FileMeshes[file])]
        bd == detectBoundaryEdgesSTLWithAdjacency(pd)
        cs == detectSharpCornersWithMap(pd, bd, th)
    IN [file |-> file,
        polylines |-> Len(detechBoundaryPolylines(pd, bd, cs).polyLineArray)]

\* Math.max(0, Math.min(index, length - 1)); NaN stays NaN
ClampIndex(index, length) ==
    IF index = NotANumber THEN NotANumber ELSE Max2(0, Min2(index, length - 1))

\* showPolyline without the clamp
ShowPolylineIndex_Unclamped(a, index) == index

\* the currentIndex showPolyline(index) hands to onPlaybackChange
ShowPolylineIndex(a, index) == ClampIndex(index, a.processedData[1].polylines)

\* handleFileSelect, then the load effect: reader.readAsArrayBuffer(stlFile)
FileSelect(file) ==
    /\ ~app.effectDue
    /\ Len(app.reads) < MaxReads
    /\ app' = [app EXCEPT !.stlFile = file, !.geometry = 0, !.processedData = <<>>,
                          !.shouldProcess = FALSE,
                          !.currentIndex = -1, !.isPlaying = FALSE,
                          !.reads = Append(@, file),
                          !.last = "file"]

\* reader.onload of one of the reads under way: setGeometry, setProcessedData(null),
\* onGeometryLoaded (handleGeometryLoaded)
ReadComplete(k) ==
    /\ ~app.effectDue
    /\ k \in DOMAIN app.reads
    /\ app' = [app EXCEPT !.viewer = [geometry |-> app.reads[k], processedData |-> <<>>],
                          !.geometry = app.reads[k],
                          !.shouldProcess = FALSE,
                          !.reads = SubSeq(@, 1, k - 1) \o SubSeq(@, k + 1, Len(@)),
                          !.effectDue = TRUE,
                          !.last = "load"]

\* handleProcessClick; the button is disabled while App's geometry is null
ProcessClick ==
    /\ ~app.effectDue
    /\ app.geometry # 0
    /\ app.clicks < MaxClicks
    /\ app' = [app EXCEPT !.shouldProcess = TRUE,
                          !.effectDue = ~app.shouldProcess,
                          !.clicks = @ + 1,
                          !.last = "process"]

\* onSettingsChange({ angleThreshold }) and onSettingsChange({ showMesh })
SettingsChange ==
    /\ ~app.effectDue
    /\ \/ \E th \in AngleThresholds \ {app.angleThreshold} :
              app' = [app EXCEPT !.angleThreshold = th, !.effectDue = TRUE,
                                 !.last = "setting"]
       \/ app' = [app EXCEPT !.showMesh = ~@, !.last = "setting"]

\* the process effect of STLViewer, run after a commit that changed one of its
\* dependencies; onProcess is handleProcess
ProcessEffect ==
    /\ app.effectDue
    /\ IF ShouldRunProcess(app.viewer.geometry, app.shouldProcess)
       THEN LET data == ProcessGeometry(app.viewer.geometry, app.angleThreshold)
            IN app' = [app EXCEPT !.viewer.processedData = <<data>>,
                                  !.processedData = <<data>>,
                                  !.shouldProcess = FALSE,
                                  !.currentIndex = IF data.polylines > 0 THEN 0 ELSE @,
                                  !.effectDue = app.shouldProcess,
                                  !.runs = @ + 1,
                                  !.trigger = app.last]
       ELSE app' = [app EXCEPT !.effectDue = FALSE]

\* the playback buttons: showPolyline(0), showPolyline(currentIndex - 1),
\* showPolyline(currentIndex + 1), showPolyline(length - 1)
PlaybackClick ==
    /\ ~app.effectDue
    /\ app.processedData # <<>>
    /\ \E b \in {"first", "prev", "next", "last"} :
           LET index == IF b = "first" THEN 0
                        ELSE IF b = "last" THEN app.processedData[1].polylines - 1
                        ELSE IF app.currentIndex = NotANumber THEN NotANumber
                        ELSE IF b = "prev" THEN app.currentIndex - 1
                        ELSE app.currentIndex + 1
           IN app' = [app EXCEPT !.currentIndex = ShowPolylineIndex(app, index),
                                 !.last = b]

\* handlePlayToggle
PlayToggle ==
    /\ ~app.effectDue
    /\ app.processedData # <<>>
    /\ app' = [app EXCEPT !.isPlaying = ~@, !.last = "toggle"]

\* one firing of the interval of the playback effect:
\* showPolyline((currentIndex + 1) % polylines.length)
PlaybackTick ==
    /\ ~app.effectDue
    /\ app.isPlaying
    /\ app.processedData # <<>>
    /\ LET length == app.processedData[1].polylines
           nextIndex == IF length = 0 \/ app.currentIndex = NotANumber THEN NotANumber
                        ELSE (app.currentIndex + 1) % length
       IN app' = [app EXCEPT !.currentIndex = ShowPolylineIndex(app, nextIndex),
                             !.last = "tick"]

pipelineVars == <<stage, polyData, boundaryData, angleThreshold, corners, traced,
                  stitchMap, cleanedPolyData, merged>>

InitApp ==
    /\ app = InitialApp
    /\ stage = "loaded"
    /\ polyData = NoPolyData
    /\ angleThreshold = 30
    /\ boundaryData = NoBoundaryData
    /\ corners = <<>>
    /\ traced = NoTrace
    /\ stitchMap = EmptyCellMap
    /\ cleanedPolyData = NoPolyData
    /\ merged = NoMerge

NextApp ==
    \/ (\E file \in FileIds : FileSelect(file)) /\ UNCHANGED pipelineVars
    \/ (\E k \in 1..MaxReads : ReadComplete(k)) /\ UNCHANGED pipelineVars
    \/ ProcessClick /\ UNCHANGED pipelineVars
    \/ SettingsChange /\ UNCHANGED pipelineVars
    \/ ProcessEffect /\ UNCHANGED pipelineVars
    \/ PlaybackClick /\ UNCHANGED pipelineVars
    \/ PlayToggle /\ UNCHANGED pipelineVars
    \/ PlaybackTick /\ UNCHANGED pipelineVars

SpecApp == InitApp /\ [][NextApp]_vars

(***************************************************************************)
(* mergeClosePointsManual on its own                                       *)
(***************************************************************************)
\* tolerances in units of the coordinates; 0 takes the exact-duplicate path
MergeTolerances == {0, 1, 2}

\* the coordinates the input points are drawn from
MergeCoords == {<<x, y, 0>> : x \in -2..3, y \in 0..1}

\* up to MaxMergePoints points in any order, repetitions included; the first
\* three points, when there are three, make one triangle
MergeInputs ==
    UNION {{[points |-> pts,
             polys |-> IF n >= 3 THEN <<3, 0, 1, 2>> ELSE <<>>] :
               pts \in [1..n -> MergeCoords]}
           : n \in 0..MaxMergePoints}

InitMerge ==
    /\ \E pd \in MergeInputs, tolerance \in MergeTolerances :
           merged = [NoMerge EXCEPT !.polyData = pd, !.tolerance = tolerance]
    /\ stage = "loaded"
    /\ polyData = NoPolyData
    /\ angleThreshold = 30
    /\ boundaryData = NoBoundaryData
    /\ corners = <<>>
    /\ traced = NoTrace
    /\ stitchMap = EmptyCellMap
    /\ cleanedPolyData = NoPolyData
    /\ app = InitialApp

\* mergeClosePointsManual(polyData, tolerance)
MergeClosePoints ==
    /\ ~merged.called
    /\ merged.polyData.points # <<>>
    /\ LET r == mergeClosePointsManual(merged.polyData, merged.tolerance)
       IN merged' = [merged EXCEPT !.called = TRUE, !.pointMap = r.pointMap,
                                   !.newPoints = r.newPoints, !.polys = r.polys]
    /\ UNCHANGED <<stage, polyData, boundaryData, angleThreshold, corners, traced,
                   stitchMap, cleanedPolyData, app>>

NextMerge == MergeClosePoints

SpecMerge == InitMerge /\ [][NextMerge]_vars

(***************************************************************************)
(* The pipeline on the slit meshes alone                                   *)
(***************************************************************************)
InitSlit ==
    /\ polyData \in SlitInputs
    /\ InitCommon

SpecSlit == InitSlit /\ [][Next]_vars

(***************************************************************************)
(* The tracer on its own, after the boundary and corner passes             *)
(***************************************************************************)
NextTrace == DetectBoundary \/ DetectCorners \/ TracePolylines

SpecTrace == InitCorner /\ [][NextTrace]_vars

(***************************************************************************)
(* reTriangulateCells on its own: one flagged cell with recorded splits    *)
(***************************************************************************)
\* the cell (0,0), (90,0), (0,90) as points 0, 1, 2; two points strictly
\* inside each of its sides, one of them one unit from point 0 on the two
\* sides that meet there
RefinePoints ==
    <<<<0, 0, 0>>, <<90, 0, 0>>, <<0, 90, 0>>,
      <<1, 0, 0>>, <<45, 0, 0>>,
      <<60, 30, 0>>, <<30, 60, 0>>,
      <<0, 45, 0>>, <<0, 1, 0>>>>

\* the six vertex orders of the cell: both windings, every rotation
RefineCells ==
    {tri \in (0..2) \X (0..2) \X (0..2) :
        tri[1] # tri[2] /\ tri[2] # tri[3] /\ tri[1] # tri[3]}

\* the points that coupleTwoPolyLines can record on side s (1..3) of the cell:
\* the points strictly inside the side, and the side's end vertex (t = 1)
SidePool(tri, s) ==
    {p \in 0..(Len(RefinePoints) - 1) :
        /\ p # tri[s]
        /\ p \notin Range(tri) \/ p = tri[(s % 3) + 1]
        /\ calTriArea(RefinePoints[tri[s] + 1], RefinePoints[tri[(s % 3) + 1] + 1],
                      RefinePoints[p + 1]) = 0
        /\ Dot(Sub(RefinePoints[p + 1], RefinePoints[tri[s] + 1]),
               Sub(RefinePoints[tri[(s % 3) + 1] + 1], RefinePoints[tri[s] + 1])) > 0
        /\ Dot(Sub(RefinePoints[p + 1], RefinePoints[tri[(s % 3) + 1] + 1]),
               Sub(RefinePoints[tri[s] + 1], RefinePoints[tri[(s % 3) + 1] + 1])) >= 0}

\* the [t, pointId] records of up to MaxSplits points of the pool, in any
\* order of insertion, with t as point2SegmentDistance returns it
SideSets(tri, s) ==
    UNION {{[k \in 1..n |->
                <<point2SegmentDistance(
                      RefinePoints[ids[k] + 1],
                      <<RefinePoints[tri[s] + 1], RefinePoints[tri[(s % 3) + 1] + 1]>>).t,
                  ids[k]>>] :
               ids \in {f \in [1..n -> SidePool(tri, s)] :
                           \A i, j \in 1..n : i # j => f[i] # f[j]}}
           : n \in 0..MaxSplits}

InitRefine ==
    /\ \E tri \in RefineCells :
           /\ polyData = [points |-> RefinePoints, polys |-> <<3>> \o tri]
           /\ \E s1 \in SideSets(tri, 1), s2 \in SideSets(tri, 2), s3 \in SideSets(tri, 3) :
                  /\ Len(s1) + Len(s2) + Len(s3) > 0
                  /\ stitchMap = [keys |-> <<0>>, sets |-> Put(EmptyFn, 0, <<s1, s2, s3>>)]
    /\ stage = "flagged"
    /\ angleThreshold = 30
    /\ boundaryData = NoBoundaryData
    /\ corners = <<>>
    /\ traced = NoTrace
    /\ cleanedPolyData = NoPolyData
    /\ merged = NoMerge
    /\ app = InitialApp

\* const cleanedPolyData = reTriangulateCells(polyData, stitchMap)
ReTriangulateCells ==
    /\ stage = "flagged"
    /\ LET r == reTriangulateCells(polyData, stitchMap)
       IN /\ polyData' = r.polyData
          /\ cleanedPolyData' = r.cleanedPolyData
    /\ stage' = "stitched"
    /\ UNCHANGED <<angleThreshold, boundaryData, corners, traced, stitchMap, merged, app>>

NextRefine == ReTriangulateCells

SpecRefine == InitRefine /\ [][NextRefine]_vars

(***************************************************************************)
(* Reference notions the properties are stated with                        *)
(***************************************************************************)
CellIds(pd) == 0..(NumberOfPolys(pd) - 1)

\* the undirected edge on side i of cell c
SideEdge(pd, c, i) == {TriIds(pd, c)[i + 1], TriIds(pd, c)[((i + 1) % 3) + 1]}

AllSides(pd) == CellIds(pd) \X (0..2)

AllEdges(pd) == {SideEdge(pd, cs[1], cs[2]) : cs \in AllSides(pd)}

\* the triangle sides that lie on edge e
SidesOn(pd, e) == {cs \in AllSides(pd) : SideEdge(pd, cs[1], cs[2]) = e}

\* brute force: the number of triangles incident to edge e
IncidentCount(pd, e) == Cardinality({c \in CellIds(pd) : e \subseteq Range(TriIds(pd, c))})

ReferenceBoundaryEdges(pd) == {e \in AllEdges(pd) : IncidentCount(pd, e) = 1}

ReportedEdges(bd) == {{bd.boundaryEdges[k][1], bd.boundaryEdges[k][2]} : k \in DOMAIN bd.boundaryEdges}

ListedOnce(seq) == \A i, j \in DOMAIN seq : i # j => seq[i] # seq[j]

NonManifold(pd) == \E e \in AllEdges(pd) : Cardinality(SidesOn(pd, e)) > 2

\* every edge is shared by exactly two triangles
ClosedManifold(pd) == \A e \in AllEdges(pd) : IncidentCount(pd, e) = 2

BoundaryDone == stage \in {"boundary", "corners", "traced", "stitched"}

(***************************************************************************)
(* C2                                                                      *)
(***************************************************************************)
\* C2: the boundaryEdges returned by detectBoundaryEdgesSTLWithAdjacency are
\* exactly the undirected edges whose incident-triangle count is 1, each
\* listed once.
C2_BoundaryIsIncidentCountOne ==
    BoundaryDone =>
        /\ ReportedEdges(boundaryData) = ReferenceBoundaryEdges(polyData)
        /\ ListedOnce(boundaryData.boundaryEdges)

(***************************************************************************)
(* C8                                                                      *)
(***************************************************************************)
\* C8: when some edge key occurs on more than two triangle sides, the pipeline
\* surfaces an error instead of returning a boundary/adjacency result: no
\* stage holding a result computed from such a mesh is ever reached.
C8_NonManifoldSurfacedAsError ==
    NonManifold(polyData) => ~BoundaryDone

(***************************************************************************)
(* C9                                                                      *)
(***************************************************************************)
\* C9: for a closed 2-manifold mesh (every edge shared by exactly two
\* triangles) boundary detection returns no boundary edge and an empty
\* adjacency map, and every later stage produces an empty result: no corners,
\* no polylines, an empty stitchMap (and the triangle list comes back as it was).
C9_ClosedMeshEmptyResults ==
    ClosedManifold(polyData) =>
        /\ boundaryData = NoBoundaryData
        /\ corners = <<>>
        /\ traced.polyLineArray = <<>>
        /\ stitchMap = EmptyCellMap
        /\ stage = "stitched" => cleanedPolyData = polyData

\* a closed mesh of at least two cells has run through the whole pipeline
C9_Witness ==
    /\ stage = "stitched"
    /\ NumberOfPolys(polyData) >= 2
    /\ ClosedManifold(polyData)

(***************************************************************************)
(* C1                                                                      *)
(***************************************************************************)
TraceDone == stage \in {"traced", "stitched"}

CornerIds == {corners[k].pointId : k \in DOMAIN corners}

\* the boundary triangle-sides found by detectBoundaryEdgesSTLWithAdjacency
BoundarySides(bd) ==
    UNION {{<<bd.adjacencyMap.sets[p][k][3], bd.adjacencyMap.sets[p][k][4]>> :
               k \in DOMAIN bd.adjacencyMap.sets[p]} : p \in DOMAIN bd.adjacencyMap.sets}

\* the (cellId, sideIndex) pairs one polyline claims: one per edge it walks,
\* carried by every element after the first
ClaimedBy(polyLine) == [k \in 1..(Len(polyLine) - 1) |-> <<polyLine[k + 1][3], polyLine[k + 1][4]>>]

\* the pairs claimed across all polylines, with repetitions
AllClaimed == Flatten([k \in DOMAIN traced.polyLineArray |-> ClaimedBy(traced.polyLineArray[k])])

\* the sides the visitation record holds as claimed
MarkedSides(neighborCells) ==
    {cs \in (DOMAIN neighborCells) \X (0..2) : neighborCells[cs[1]][cs[2] + 1] = 1}

RECURSIVE BoundaryClosure(_, _)
\* the boundary points connected to a point of R along boundary edges
BoundaryClosure(adj, R) ==
    LET more == R \cup UNION {{adj.sets[p][k][1] : k \in DOMAIN adj.sets[p]} : p \in R}
    IN IF more = R THEN R ELSE BoundaryClosure(adj, more)

\* the boundary sides on a boundary component that holds at least one corner
SidesOnCorneredChains ==
    LET adj == boundaryData.adjacencyMap
        R == BoundaryClosure(adj, CornerIds)
    IN UNION {{<<adj.sets[p][k][3], adj.sets[p][k][4]>> : k \in DOMAIN adj.sets[p]} : p \in R}

\* C1 (as stated): after detechBoundaryPolylines the (cellId, sideIndex) pairs
\* claimed across all polylines are exactly the boundary triangle-sides, each
\* claimed exactly once: none omitted, none duplicated.
C1_AllBoundarySidesClaimedOnce ==
    TraceDone =>
        /\ Range(AllClaimed) = BoundarySides(boundaryData)
        /\ ListedOnce(AllClaimed)

\* C1 (amended): the pairs claimed across all polylines are boundary sides,
\* none is claimed twice, and they are exactly the boundary sides of the
\* boundary components that hold at least one corner; the visitation record
\* holds the same set.
C1_CorneredSidesClaimedOnce ==
    TraceDone =>
        /\ Range(AllClaimed) \subseteq BoundarySides(boundaryData)
        /\ ListedOnce(AllClaimed)
        /\ Range(AllClaimed) = SidesOnCorneredChains
        /\ MarkedSides(traced.neighborCells) = Range(AllClaimed)

\* several polylines were traced from corners and claimed at least five sides
C1_Witness ==
    /\ TraceDone
    /\ Len(traced.polyLineArray) >= 3
    /\ Len(AllClaimed) >= 5

(***************************************************************************)
(* C10                                                                     *)
(***************************************************************************)
BoundaryDegree(p) == Len(Neighbors(boundaryData.adjacencyMap, p))

\* C10: every polyline returned by the tracer has at least two points, its
\* first and last points are corners (the terminating point is included), and
\* every point strictly between them is a non-corner boundary point of
\* boundary degree exactly 2.
C10_PolylinesRunCornerToCorner ==
    TraceDone =>
        \A k \in DOMAIN traced.polyLineArray :
            LET pl == traced.polyLineArray[k]
            IN /\ Len(pl) >= 2
               /\ pl[1][1] \in CornerIds
               /\ pl[Len(pl)][1] \in CornerIds
               /\ \A i \in 2..(Len(pl) - 1) :
                      /\ pl[i][1] \notin CornerIds
                      /\ BoundaryDegree(pl[i][1]) = 2

\* a polyline with interior points was traced, and one that closes on its
\* starting corner
C10_Witness ==
    /\ TraceDone
    /\ \E k \in DOMAIN traced.polyLineArray : Len(traced.polyLineArray[k]) >= 4
    /\ \E k \in DOMAIN traced.polyLineArray :
           traced.polyLineArray[k][1][1]
               = traced.polyLineArray[k][Len(traced.polyLineArray[k])][1]

(***************************************************************************)
(* C3 .. C6: the frame of the repair                                       *)
(***************************************************************************)
\* the triangle list of a polyData, one triple per cell
TrianglesOf(pd) == [c \in 1..NumberOfPolys(pd) |-> TriIds(pd, c - 1)]

Flagged == Range(stitchMap.keys)

\* the input cells without a stitchMap entry, in cell order
UnflaggedTriangles ==
    Flatten([c \in 1..NumberOfPolys(polyData) |->
                IF (c - 1) \in Flagged THEN <<>> ELSE <<TriIds(polyData, c - 1)>>])

RECURSIVE AddedBefore(_)
\* the number of triangles added for the first k - 1 flagged cells
AddedBefore(k) ==
    IF k <= 1 THEN 0
    ELSE AddedBefore(k - 1) + Len(NewTriangles(polyData, stitchMap, stitchMap.keys[k - 1]))

\* the triangles of the repaired list that stand for the k-th flagged cell
ReplacementOf(k) ==
    LET from == Len(UnflaggedTriangles) + AddedBefore(k)
    IN SubSeq(TrianglesOf(cleanedPolyData), from + 1,
              from + Len(NewTriangles(polyData, stitchMap, stitchMap.keys[k])))

\* the point ids recorded in the three side sets of one stitchMap entry
SplitIds(info) == UNION {{info[s][k][2] : k \in DOMAIN info[s]} : s \in 1..3}

C4_OnlyExistingPointIds ==
    stage = "stitched" =>
        /\ \A k \in DOMAIN cleanedPolyData.polys :
               IF k % 4 = 1 THEN cleanedPolyData.polys[k] = 3
               ELSE cleanedPolyData.polys[k] \in 0..(Len(polyData.points) - 1)
        /\ \A k \in DOMAIN stitchMap.keys :
               \A j \in DOMAIN ReplacementOf(k) :
                   Range(ReplacementOf(k)[j])
                       \subseteq Range(TriIds(polyData, stitchMap.keys[k]))
                                 \cup SplitIds(stitchMap.sets[stitchMap.keys[k]])

\* a cell with two split points was replaced
C4_Witness ==
    /\ stage = "stitched"
    /\ \E c \in Flagged : Cardinality(SplitIds(stitchMap.sets[c])) >= 2

\* C5: every cell without a stitchMap entry appears unchanged, in the same
\* relative order (the code puts them first); every flagged cell is dropped
\* and replaced by at least one new triangle, none of them on the vertex set
\* of the original, and the list holds nothing else.
C5_UnflaggedKeptFlaggedReplaced ==
    stage = "stitched" =>
        /\ SubSeq(TrianglesOf(cleanedPolyData), 1, Len(UnflaggedTriangles))
               = UnflaggedTriangles
        /\ NumberOfPolys(cleanedPolyData)
               = Len(UnflaggedTriangles) + AddedBefore(Len(stitchMap.keys) + 1)
        /\ \A k \in DOMAIN stitchMap.keys :
               /\ Len(ReplacementOf(k)) >= 1
               /\ \A j \in DOMAIN ReplacementOf(k) :
                      Range(ReplacementOf(k)[j]) # Range(TriIds(polyData, stitchMap.keys[k]))

\* a repair with a flagged cell between unflagged ones
C5_Witness ==
    /\ stage = "stitched"
    /\ \E c \in Flagged : \E a, b \in CellIds(polyData) \ Flagged : a < c /\ c < b

\* how often x occurs in a sequence
Occurrences(seq, x) == Cardinality({k \in DOMAIN seq : seq[k] = x})

\* C6: when no slit is detected (the stitchMap ends up empty), the repaired
\* triangle list equals the input triangle list as a multiset of triples.
C6_NoSlitSameTriangles ==
    (stage = "stitched" /\ stitchMap.keys = <<>>) =>
        \A t \in Range(TrianglesOf(polyData)) \cup Range(TrianglesOf(cleanedPolyData)) :
            Occurrences(TrianglesOf(cleanedPolyData), t)
                = Occurrences(TrianglesOf(polyData), t)

\* the repair ran on two polylines with the same endpoints and interior
\* points, and recorded nothing
C6_Witness ==
    /\ stage = "stitched"
    /\ stitchMap.keys = <<>>
    /\ NumberOfPolys(polyData) >= 2
    /\ \E i, j \in DOMAIN traced.polyLineArray :
           /\ i # j
           /\ EndpointKey(traced.polyLineArray[i]) = EndpointKey(traced.polyLineArray[j])
           /\ Len(traced.polyLineArray[i]) >= 3

(***************************************************************************)
(* C7                                                                      *)
(***************************************************************************)
\* the point ids strictly inside a polyline
InteriorIds(polyLine) == {polyLine[k][1] : k \in 2..(Len(polyLine) - 1)}

\* point p was recorded on a side that polyline target walks
AcceptedOnto(p, target) ==
    \E k \in 2..Len(target) :
        /\ target[k][3] \in Flagged
        /\ \E r \in DOMAIN stitchMap.sets[target[k][3]][target[k][4] + 1] :
               stitchMap.sets[target[k][3]][target[k][4] + 1][r][2] = p

\* the points along one walked side after the repair: start, splits, end
SidePoints(c, sideId) ==
    IF c \in Flagged
    THEN OrderedPoints(polyData, stitchMap.sets[c], c)[sideId + 1]
    ELSE <<CellDataAt(polyData, c * 4 + 1 + sideId),
           CellDataAt(polyData, c * 4 + 1 + ((sideId + 1) % 3))>>

\* the edges between consecutive points along a polyline after the repair
RefinedEdges(polyLine) ==
    UNION {{{SidePoints(polyLine[k][3], polyLine[k][4])[i],
             SidePoints(polyLine[k][3], polyLine[k][4])[i + 1]} :
               i \in 1..(Len(SidePoints(polyLine[k][3], polyLine[k][4])) - 1)}
           : k \in 2..Len(polyLine)}

\* two distinct polylines with the same endpoints, every interior point of
\* each accepted onto a side of the other
RepairedSlit(i, j) ==
    LET a == traced.polyLineArray[i]
        b == traced.polyLineArray[j]
    IN /\ i # j
       /\ EndpointKey(a) = EndpointKey(b)
       /\ InteriorIds(a) \cup InteriorIds(b) # {}
       /\ \A p \in InteriorIds(a) : AcceptedOnto(p, b)
       /\ \A p \in InteriorIds(b) : AcceptedOnto(p, a)

\* C7: after the repair of a slit whose two polylines share both endpoints
\* and whose interior points were all accepted onto a side of the other, the
\* two curves are conformal: every edge between consecutive points along the
\* slit is a side of exactly two triangles of the output list.
C7_RepairedSlitIsConformal ==
    stage = "stitched" =>
        \A i, j \in DOMAIN traced.polyLineArray :
            RepairedSlit(i, j) =>
                \A e \in RefinedEdges(traced.polyLineArray[i])
                           \cup RefinedEdges(traced.polyLineArray[j]) :
                    Cardinality(SidesOn(cleanedPolyData, e)) = 2

(***************************************************************************)
(* C11                                                                     *)
(***************************************************************************)
\* the number of split points recorded in one stitchMap entry
SplitCount(info) == Len(info[1]) + Len(info[2]) + Len(info[3])

\* the k-th flagged cell holds one split point in all
SingleSplit(k) == SplitCount(stitchMap.sets[stitchMap.keys[k]]) = 1

\* the side (1..3) of a single-split entry that holds the split point
SplitSide(info) == CHOOSE s \in 1..3 : Len(info[s]) = 1

\* C11 (as stated): a flagged cell with exactly one split point P, on the side
\* running start->end, and none on its other two sides is replaced by exactly
\* 2 triangles, one on {start, P, opposite} and one on {P, end, opposite}.
C11_SingleSplitGivesTwoTriangles ==
    stage = "stitched" =>
        \A k \in DOMAIN stitchMap.keys :
            SingleSplit(k) =>
                LET info == stitchMap.sets[stitchMap.keys[k]]
                    tri == TriIds(polyData, stitchMap.keys[k])
                    s == SplitSide(info)
                    P == info[s][1][2]
                    start == tri[s]
                    end == tri[(s % 3) + 1]
                    opposite == tri[((s + 1) % 3) + 1]
                    rep == ReplacementOf(k)
                IN /\ Len(rep) = 2
                   /\ {Range(rep[1]), Range(rep[2])}
                          = {{start, P, opposite}, {P, end, opposite}}

\* C11 (amended): such a cell is replaced by the triangle [start, P, opposite]
\* exactly when the area of that triangle exceeds MIN_TRIANGLE_AREA, followed
\* by the central triangle on {P, end, opposite}: by 2 triangles when the
\* first is kept and by the central triangle alone when it is filtered out.
C11_SingleSplitFanThenCentral ==
    stage = "stitched" =>
        \A k \in DOMAIN stitchMap.keys :
            SingleSplit(k) =>
                LET info == stitchMap.sets[stitchMap.keys[k]]
                    tri == TriIds(polyData, stitchMap.keys[k])
                    s == SplitSide(info)
                    P == info[s][1][2]
                    start == tri[s]
                    end == tri[(s % 3) + 1]
                    opposite == tri[((s + 1) % 3) + 1]
                    rep == ReplacementOf(k)
                    kept == AreaAboveMin(PointCoord(polyData, start),
                                         PointCoord(polyData, P),
                                         PointCoord(polyData, opposite))
                IN /\ Len(rep) = IF kept THEN 2 ELSE 1
                   /\ kept => rep[1] = <<start, P, opposite>>
                   /\ Range(rep[Len(rep)]) = {P, end, opposite}

\* a single-split cell was replaced by two triangles, the split point being
\* none of the cell's own vertices
C11_Witness ==
    /\ stage = "stitched"
    /\ \E k \in DOMAIN stitchMap.keys :
           /\ SingleSplit(k)
           /\ Len(ReplacementOf(k)) = 2
           /\ SplitIds(stitchMap.sets[stitchMap.keys[k]])
                  \cap Range(TriIds(polyData, stitchMap.keys[k])) = {}

(***************************************************************************)
(* C12                                                                     *)
(***************************************************************************)
\* twice the area of the triangle on three point ids; every mesh of the model
\* lies in the plane z = 0, where the cross product is <<0, 0, z>> and its
\* magnitude is |z|
TwiceArea(pd, tri) ==
    LET z == Cross(Sub(PointCoord(pd, tri[2]), PointCoord(pd, tri[1])),
                   Sub(PointCoord(pd, tri[3]), PointCoord(pd, tri[1])))[3]
    IN IF z < 0 THEN -z ELSE z

RECURSIVE SumTwiceArea(_, _)
SumTwiceArea(pd, tris) ==
    IF tris = <<>> THEN 0
    ELSE TwiceArea(pd, Head(tris)) + SumTwiceArea(pd, Tail(tris))

\* no fan triangle of the k-th flagged cell is dropped by the minimum-area filter
NoneDropped(k) ==
    LET c == stitchMap.keys[k]
        op == OrderedPoints(polyData, stitchMap.sets[c], c)
    IN \A s \in 1..3 : \A i \in 1..(Len(op[s]) - 2) :
           AreaAboveMin(PointCoord(polyData, op[s][i]),
                        PointCoord(polyData, op[s][i + 1]),
                        PointCoord(polyData, op[((s + 1) % 3) + 1][Len(op[((s + 1) % 3) + 1]) - 1]))

\* point q lies exactly on the segment from a to b
OnSegment(q, a, b) ==
    /\ calTriArea(a, b, q) = 0
    /\ Dot(Sub(q, a), Sub(b, a)) >= 0
    /\ Dot(Sub(q, a), Sub(b, a)) <= Dot(Sub(b, a), Sub(b, a))

\* every split point of the k-th flagged cell lies exactly on its side
SplitsOnSides(k) ==
    LET c == stitchMap.keys[k]
        tri == TriIds(polyData, c)
    IN \A s \in 1..3 : \A r \in DOMAIN stitchMap.sets[c][s] :
           OnSegment(PointCoord(polyData, stitchMap.sets[c][s][r][2]),
                     PointCoord(polyData, tri[s]),
                     PointCoord(polyData, tri[(s % 3) + 1]))

CornersDone == stage \in {"corners", "traced", "stitched"}

\* the corner records of point p
CornerRecords(p) == {k \in DOMAIN corners : corners[k].pointId = p}

EdgeVectors(p) ==
    LET ns == boundaryData.adjacencyMap.sets[p]
        v1 == Sub(PointCoord(polyData, ns[1][1]), PointCoord(polyData, p))
        v2 == Sub(PointCoord(polyData, ns[2][1]), PointCoord(polyData, p))
    IN [d |-> Dot(v1, v2), m |-> Dot(v1, v1) * Dot(v2, v2)]

\* d / sqrt(m) > cos(th) for the thresholds drawn, from the squares of the cosines
UnitDotAboveCos(d, m, th) ==
    IF th = 30 THEN d > 0 /\ 4 * d * d > 3 * m
    ELSE IF th = 60 THEN d > 0 /\ 4 * d * d > m
    ELSE IF th = 90 THEN d > 0
    ELSE d >= 0 \/ FracBelow(d * d, 104, 3449, m)

\* C14: a boundary point with exactly 2 adjacency entries and edge vectors of
\* non-zero length is a corner iff the dot product of the two unit vectors to
\* its neighbours is strictly greater than cos(threshold); a 90-degree vertex
\* (dot = 0) is no corner at threshold 30 and is a corner at threshold 100.
C14_SharpIffDotAboveCos ==
    CornersDone =>
        \A p \in DOMAIN boundaryData.adjacencyMap.sets :
            (BoundaryDegree(p) = 2 /\ EdgeVectors(p).m > 0) =>
                /\ p \in CornerIds
                       <=> UnitDotAboveCos(EdgeVectors(p).d, EdgeVectors(p).m, angleThreshold)
                /\ Cardinality(CornerRecords(p)) <= 1
                /\ EdgeVectors(p).d = 0 =>
                       /\ angleThreshold = 30 => p \notin CornerIds
                       /\ angleThreshold = 100 => p \in CornerIds

\* a 90-degree vertex with two entries was classified as a corner at threshold 100
C14_Witness ==
    /\ stage = "corners"
    /\ angleThreshold = 100
    /\ \E p \in DOMAIN boundaryData.adjacencyMap.sets :
           /\ BoundaryDegree(p) = 2
           /\ EdgeVectors(p).d = 0
           /\ EdgeVectors(p).m > 0
           /\ p \in CornerIds

(***************************************************************************)
(* C15                                                                     *)
(***************************************************************************)
\* the perpendicular distance from q to the line through a and b is at most
\* tolerance and the projection parameter t lies in [0, 1]
PerpendicularWithin(q, a, b, tolerance) ==
    LET v == Sub(b, a)
        w == Sub(q, a)
    IN /\ Dot(w, v) >= 0
       /\ Dot(w, v) <= Dot(v, v)
       /\ Dot(w, w) * Dot(v, v) - Dot(w, v) * Dot(w, v)
              <= tolerance * tolerance * Dot(v, v)

\* some (t, p) is recorded in the stitchMap under side sideId of cell c
RecordedUnder(p, c, sideId) ==
    /\ c \in Flagged
    /\ \E r \in DOMAIN stitchMap.sets[c][sideId + 1] :
           stitchMap.sets[c][sideId + 1][r][2] = p

\* C15: for each ordered pair (A, B) of distinct polylines in the same endpoint
\* group, each interior point P of A and each side segment S of B, (t, P) is
\* recorded in the stitchMap under S's (cellId, sideIndex) if and only if the
\* perpendicular distance from P to S is <= tolerance and 0 <= t <= 1.
C15_RecordedIffWithinTolerance ==
    stage = "stitched" =>
        \A i, j \in DOMAIN traced.polyLineArray :
            (i # j /\ EndpointKey(traced.polyLineArray[i])
                          = EndpointKey(traced.polyLineArray[j])) =>
                \A p \in InteriorIds(traced.polyLineArray[i]) :
                    \A k \in 2..Len(traced.polyLineArray[j]) :
                        LET c == traced.polyLineArray[j][k][3]
                            sideId == traced.polyLineArray[j][k][4]
                            tri == TriIds(polyData, c)
                        IN RecordedUnder(p, c, sideId)
                               <=> PerpendicularWithin(
                                       PointCoord(polyData, p),
                                       PointCoord(polyData, tri[sideId + 1]),
                                       PointCoord(polyData, tri[((sideId + 1) % 3) + 1]),
                                       POLYLINE_DISTANCE_TOLERANCE)

(***************************************************************************)
(* C16                                                                     *)
(***************************************************************************)
\* the ordered point sequences of the three sides of the k-th flagged cell
SidesOfFlagged(k) ==
    OrderedPoints(polyData, stitchMap.sets[stitchMap.keys[k]], stitchMap.keys[k])

\* the apex of side s (1..3): the second-to-last point of side (s + 2) mod 3
ApexOf(k, s) ==
    LET opp == SidesOfFlagged(k)[((s + 1) % 3) + 1]
    IN opp[Len(opp) - 1]

\* the triangle of the i-th consecutive pair of side s with the side's apex
PairTriangle(k, s, i) ==
    <<SidesOfFlagged(k)[s][i], SidesOfFlagged(k)[s][i + 1], ApexOf(k, s)>>

\* that triangle passes the minimum-area filter
PairAboveMin(k, s, i) ==
    AreaAboveMin(PointCoord(polyData, PairTriangle(k, s, i)[1]),
                 PointCoord(polyData, PairTriangle(k, s, i)[2]),
                 PointCoord(polyData, PairTriangle(k, s, i)[3]))

\* the pairs <<s, i>> of the k-th flagged cell up to the last pair of each
\* side (last = 1) or short of it (last = 0) whose triangle passes the filter
KeptPairs(k, last) ==
    UNION {{<<s, i>> : i \in {x \in 1..(Len(SidesOfFlagged(k)[s]) - 2 + last) :
                                 PairAboveMin(k, s, x)}}
           : s \in 1..3}

\* C16 (as stated): for every consecutive pair of points of side i's ordered
\* sequence [start, splits ascending by t, end], a triangle on that pair and
\* the side's apex is emitted, unless its area is below the minimum.
C16_EveryPairFanned ==
    stage = "stitched" =>
        \A k \in DOMAIN stitchMap.keys :
            \A si \in KeptPairs(k, 1) :
                \E j \in DOMAIN ReplacementOf(k) :
                    Range(ReplacementOf(k)[j]) = Range(PairTriangle(k, si[1], si[2]))

\* C16 (amended): for every consecutive pair of side i's ordered sequence
\* except the last pair (the one that ends at the side's end vertex), the
\* triangle [p0, p1, apex of side i] is emitted exactly when its area exceeds
\* MIN_TRIANGLE_AREA; these triangles and one central triangle are all the
\* cell is replaced by.
C16_AllButLastPairFanned ==
    stage = "stitched" =>
        \A k \in DOMAIN stitchMap.keys :
            /\ \A si \in KeptPairs(k, 0) :
                   \E j \in 1..(Len(ReplacementOf(k)) - 1) :
                       ReplacementOf(k)[j] = PairTriangle(k, si[1], si[2])
            /\ Len(ReplacementOf(k)) = Cardinality(KeptPairs(k, 0)) + 1

\* a cell with two split points on one side was replaced by two fan triangles
\* and the central triangle
C16_Witness ==
    /\ stage = "stitched"
    /\ \E k \in DOMAIN stitchMap.keys :
           /\ \E s \in 1..3 : Len(SidesOfFlagged(k)[s]) >= 4
           /\ Len(ReplacementOf(k)) >= 3

(***************************************************************************)
(* C17                                                                     *)
(***************************************************************************)
\* the three apex points collected for the k-th flagged cell, in side order
Apexes(k) == <<ApexOf(k, 1), ApexOf(k, 2), ApexOf(k, 3)>>

\* C17: the central triangle on the three apex points of a flagged cell is
\* emitted only if the three point ids are pairwise distinct: the replacement
\* of a cell ends with the triangle of its apexes exactly when they are
\* distinct, and no emitted central triangle has a repeated vertex id.
C17_CentralTriangleHasDistinctIds ==
    stage = "stitched" =>
        \A k \in DOMAIN stitchMap.keys :
            LET rep == ReplacementOf(k)
            IN (rep # <<>> /\ rep[Len(rep)] = Apexes(k))
                   => Cardinality(Range(Apexes(k))) = 3

(***************************************************************************)
(* C18                                                                     *)
(***************************************************************************)
RECURSIVE TraceStates(_, _)
\* the tracer's states at the start and after the walks from each corner in
\* turn: element n + 1 is the state after the first n corners
TraceStates(seq, n) ==
    IF n > Len(corners) THEN seq
    ELSE TraceStates(
             Append(seq, TraceCornerEntries(seq[Len(seq)], boundaryData.adjacencyMap,
                                            CornerIds, corners[n].pointId, 1)),
             n + 1)

\* the tracer's states of the run that produced traced
TraceRun ==
    TraceStates(<<[polyLine |-> <<>>, neighborCells |-> EmptyFn,
                   done |-> <<>>, steps |-> 0]>>, 1)

\* whether a walk attempted from entry e of corner cornerId over the state st
\* leaves the record and the finished polylines as they are
WalkAddsNothing(st, cornerId, e) ==
    LET t == TraceFromCorner(st, boundaryData.adjacencyMap, CornerIds, cornerId, e)
    IN t.done = st.done /\ t.neighborCells = st.neighborCells

\* C18: a claimed side is never claimed again and never becomes unclaimed:
\* markCellSide on a claimed (cellId, sideIndex) returns false and leaves the
\* visitation record as it is; from one corner to the next the record only
\* grows and the finished polylines stay; a walk attempted again from any
\* corner over sides already traced (the far corner of a chain included) adds
\* no polyline; and no side is claimed by two polylines.
C18_ClaimedSideStaysClaimed ==
    stage = "traced" =>
        /\ TraceRun[Len(corners) + 1].done = traced.polyLineArray
        /\ TraceRun[Len(corners) + 1].neighborCells = traced.neighborCells
        /\ \A cs \in MarkedSides(traced.neighborCells) :
               markCellSide(traced.neighborCells, cs[1], cs[2])
                   = [ok |-> FALSE, cells |-> traced.neighborCells]
        /\ \A n \in 1..Len(corners) :
               /\ MarkedSides(TraceRun[n].neighborCells)
                      \subseteq MarkedSides(TraceRun[n + 1].neighborCells)
               /\ SubSeq(TraceRun[n + 1].done, 1, Len(TraceRun[n].done))
                      = TraceRun[n].done
        /\ \A n \in 1..Len(corners) :
               \A e \in Range(Neighbors(boundaryData.adjacencyMap, corners[n].pointId)) :
                   WalkAddsNothing([polyLine |-> <<>>,
                                    neighborCells |-> traced.neighborCells,
                                    done |-> traced.polyLineArray,
                                    steps |-> traced.steps],
                                   corners[n].pointId, e)
        /\ ListedOnce(AllClaimed)

\* a chain with an interior point was traced between two different corners,
\* so the walk from its far corner met a claimed side
C18_Witness ==
    /\ TraceDone
    /\ \E k \in DOMAIN traced.polyLineArray :
           LET pl == traced.polyLineArray[k]
           IN /\ Len(pl) >= 3
              /\ pl[1][1] # pl[Len(pl)][1]
              /\ \E e \in Range(Neighbors(boundaryData.adjacencyMap, pl[Len(pl)][1])) :
                     e[3] = pl[Len(pl)][3] /\ e[4] = pl[Len(pl)][4]

(***************************************************************************)
(* C19                                                                     *)
(***************************************************************************)
\* the unordered pair of the first and last point ids of a polyline
EndpointPair(polyLine) == {polyLine[1][1], polyLine[Len(polyLine)][1]}

\* the polyline (1-based index) that walks side sideId of cell c, or 0
WalkerOf(c, sideId) ==
    LET ws == {i \in DOMAIN traced.polyLineArray :
                  \E k \in 2..Len(traced.polyLineArray[i]) :
                      /\ traced.polyLineArray[i][k][3] = c
                      /\ traced.polyLineArray[i][k][4] = sideId}
    IN IF ws = {} THEN 0 ELSE CHOOSE i \in ws : TRUE

EntriesTo(x, n) ==
    {k \in DOMAIN Neighbors(boundaryData.adjacencyMap, x) :
        Neighbors(boundaryData.adjacencyMap, x)[k][1] = n}

RECURSIVE SumLen(_, _)
\* the number of entries of the map over the points of S
SumLen(sets, S) ==
    IF S = {} THEN 0
    ELSE LET x == CHOOSE y \in S : TRUE
         IN Len(sets[x]) + SumLen(sets, S \ {x})

\* C20: for every boundary edge {p, q} (p < q), found on side s of cell c, the
\* adjacency map holds exactly one entry (q, r, c, s) under p and exactly one
\* entry (p, -r, c, s) under q, where r is +1 when the triangle lists the
\* smaller id first on that side and -1 otherwise; the map holds no other
\* entries.
C20_TwoEntriesPerBoundaryEdge ==
    BoundaryDone =>
        LET adj == boundaryData.adjacencyMap
            edges == boundaryData.boundaryEdges
        IN /\ \A k \in DOMAIN edges :
                  LET p == edges[k][1]
                      q == edges[k][2]
                  IN /\ p < q
                     /\ Cardinality(EntriesTo(p, q)) = 1
                     /\ Cardinality(EntriesTo(q, p)) = 1
                     /\ \A a \in EntriesTo(p, q) : \A b \in EntriesTo(q, p) :
                            LET ep == adj.sets[p][a]
                                eq == adj.sets[q][b]
                                c == ep[3]
                                sd == ep[4]
                            IN /\ c \in CellIds(polyData) /\ sd \in 0..2
                               /\ SideEdge(polyData, c, sd) = {p, q}
                               /\ ep[2] = (IF TriIds(polyData, c)[sd + 1] = p THEN 1 ELSE -1)
                               /\ eq = <<p, -ep[2], c, sd>>
           /\ ListedOnce(edges)
           /\ ListedOnce(adj.keys)
           /\ Range(adj.keys) = DOMAIN adj.sets
           /\ SumLen(adj.sets, DOMAIN adj.sets) = 2 * Len(edges)

\* boundary edges of both rotations were found on a mesh that also has an
\* interior edge
C20_Witness ==
    /\ stage = "boundary"
    /\ \E e \in AllEdges(polyData) : e \notin ReportedEdges(boundaryData)
    /\ \E k \in DOMAIN boundaryData.boundaryEdges :
           \E a \in EntriesTo(boundaryData.boundaryEdges[k][1],
                              boundaryData.boundaryEdges[k][2]) :
               boundaryData.adjacencyMap.sets[boundaryData.boundaryEdges[k][1]][a][2] = 1
    /\ \E k \in DOMAIN boundaryData.boundaryEdges :
           \E a \in EntriesTo(boundaryData.boundaryEdges[k][1],
                              boundaryData.boundaryEdges[k][2]) :
               boundaryData.adjacencyMap.sets[boundaryData.boundaryEdges[k][1]][a][2] = -1

(***************************************************************************)
(* C24                                                                     *)
(***************************************************************************)
\* the number of cells that list point p
CellsAt(pd, p) == Cardinality({c \in CellIds(pd) : p \in Range(TriIds(pd, c))})

ComponentOf(c, i) == BoundaryClosure(boundaryData.adjacencyMap, SideEdge(polyData, c, i))

\* C23: a boundary side is left unclaimed by the tracer only if it lies on a
\* closed boundary loop all of whose points are non-corner points of degree
\* 2; every boundary side on a chain that touches at least one corner is
\* claimed by exactly one polyline; with an empty corner set no polyline is
\* produced.
C23_UnclaimedOnlyOnCornerFreeLoops ==
    TraceDone =>
        /\ \A cs \in BoundarySides(boundaryData) \ Range(AllClaimed) :
               \A p \in ComponentOf(cs[1], cs[2]) :
                   p \notin CornerIds /\ BoundaryDegree(p) = 2
        /\ \A cs \in BoundarySides(boundaryData) :
               (ComponentOf(cs[1], cs[2]) \cap CornerIds # {})
                   => Occurrences(AllClaimed, cs) = 1
        /\ (corners = <<>>) => (traced.polyLineArray = <<>>)

\* a mesh with boundary edges and no corner was traced: nothing is claimed
C23_Witness ==
    /\ TraceDone
    /\ corners = <<>>
    /\ Cardinality(BoundarySides(boundaryData)) >= 4
    /\ AllClaimed = <<>>

(***************************************************************************)
(* C27                                                                     *)
(***************************************************************************)
\* C27: detechBoundaryPolylines terminates: each step of the trace claims a
\* side that was unclaimed before, so the number of steps over the whole
\* trace is at most the number of boundary sides.
C27_StepsBoundedByBoundarySides ==
    TraceDone =>
        /\ traced.steps = Len(AllClaimed)
        /\ traced.steps = Cardinality(MarkedSides(traced.neighborCells))
        /\ traced.steps <= Cardinality(BoundarySides(boundaryData))
        /\ traced.steps <= 3 * NumberOfPolys(polyData)

\* a trace that took as many steps as there are boundary sides, some of them
\* recursive, and one that took fewer
C27_Witness ==
    /\ TraceDone
    /\ traced.steps = Cardinality(BoundarySides(boundaryData))
    /\ traced.steps > Len(traced.polyLineArray)
    /\ Len(traced.polyLineArray) >= 2

(***************************************************************************)
(* C25                                                                     *)
(***************************************************************************)
\* C25: when no fan triangle is dropped by the area filter, a flagged cell
\* with n0, n1 and n2 split points on its three sides is replaced by exactly
\* n0 + n1 + n2 + 1 triangles.
C25_SplitCountPlusOneTriangles ==
    stage = "stitched" =>
        \A k \in DOMAIN stitchMap.keys :
            NoneDropped(k) =>
                /\ Len(ReplacementOf(k)) = SplitCount(stitchMap.sets[stitchMap.keys[k]]) + 1
                /\ NumberOfPolys(cleanedPolyData)
                       >= SplitCount(stitchMap.sets[stitchMap.keys[k]]) + 1

\* a cell with split points on all three sides, two of them on one side, was
\* replaced without a dropped triangle
C25_Witness ==
    /\ stage = "stitched"
    /\ \E k \in DOMAIN stitchMap.keys :
           LET info == stitchMap.sets[stitchMap.keys[k]]
           IN /\ NoneDropped(k)
              /\ Len(info[1]) > 0 /\ Len(info[2]) > 0 /\ Len(info[3]) > 0
              /\ SplitCount(info) >= 4
              /\ Len(ReplacementOf(k)) = SplitCount(info) + 1

(***************************************************************************)
(* C26                                                                     *)
(***************************************************************************)
\* the winding of a triangle in the plane z = 0: 1 counter-clockwise, -1
\* clockwise, 0 when its points are collinear
Winding(pd, tri) ==
    LET z == Cross(Sub(PointCoord(pd, tri[2]), PointCoord(pd, tri[1])),
                   Sub(PointCoord(pd, tri[3]), PointCoord(pd, tri[1])))[3]
    IN IF z > 0 THEN 1 ELSE IF z < 0 THEN -1 ELSE 0

\* every split point of the k-th flagged cell lies on the side it is recorded
\* on, strictly between the side's two vertices
SplitsStrictlyInside(k) ==
    LET c == stitchMap.keys[k]
        tri == TriIds(polyData, c)
    IN /\ SplitsOnSides(k)
       /\ \A s \in 1..3 : \A r \in DOMAIN stitchMap.sets[c][s] :
              /\ PointCoord(polyData, stitchMap.sets[c][s][r][2]) # PointCoord(polyData, tri[s])
              /\ PointCoord(polyData, stitchMap.sets[c][s][r][2])
                     # PointCoord(polyData, tri[(s % 3) + 1])

PairingMap(call) ==
    coupleTwoPolyLines(polyData, traced.polyLineArray[call[1] + 1],
                       traced.polyLineArray[call[2] + 1], EmptyCellMap,
                       POLYLINE_DISTANCE_TOLERANCE)

\* the places <<cellId, sideId, position>> where a cell map holds point p
RecordPlaces(m, p) ==
    UNION {{<<cs[1], cs[2], r>> :
               r \in {i \in DOMAIN m.sets[cs[1]][cs[2] + 1] :
                          m.sets[cs[1]][cs[2] + 1][i][2] = p}}
           : cs \in Range(m.keys) \X (0..2)}

\* the positions in B's walk order of the sides that accept point p
AcceptingSegments(p, B) ==
    {k \in DOMAIN extractPoints(polyData, B) :
        Accepted(point2SegmentDistance(PointCoord(polyData, p),
                                       extractPoints(polyData, B)[k].pointCords),
                 POLYLINE_DISTANCE_TOLERANCE)}

\* the least element of a non-empty set of numbers
Least(S) == CHOOSE x \in S : \A y \in S : x <= y

C22_MergedWithinToleranceKeptApart ==
    (merged.called /\ merged.tolerance > 0) =>
        /\ Len(merged.pointMap) = Len(merged.polyData.points)
        /\ \A i \in DOMAIN merged.polyData.points :
               /\ merged.pointMap[i] \in 0..(Len(merged.newPoints) - 1)
               /\ DistSq(merged.polyData.points[i], merged.newPoints[merged.pointMap[i] + 1])
                      <= merged.tolerance * merged.tolerance
        /\ \A a, b \in DOMAIN merged.newPoints :
               a # b => DistSq(merged.newPoints[a], merged.newPoints[b])
                            > merged.tolerance * merged.tolerance

\* three points in three grid cells, left kept, the middle one merged into it
\* from exactly the tolerance away, the right one kept although it lies within
\* the tolerance of the middle one
C22_Witness ==
    /\ merged.called
    /\ merged.tolerance = 2
    /\ merged.polyData.points = <<<<-1, 0, 0>>, <<1, 0, 0>>, <<3, 0, 0>>>>
    /\ merged.pointMap = <<0, 0, 1>>
    /\ merged.polys = <<3, 0, 0, 1>>

(***************************************************************************)
(* C21: in the React app the boundary processing runs only while           *)
(* shouldProcess is true, and only a Process click makes it true: a run    *)
(* is always the effect that follows a Process click, never the one that   *)
(* follows a loaded file or a changed setting; a run leaves shouldProcess  *)
(* false, and there are never more runs than Process clicks.               *)
(***************************************************************************)
C21_ProcessingOnlyOnClick ==
    /\ [](app.runs <= app.clicks)
    /\ [](app.shouldProcess => app.last = "process" /\ app.effectDue)
    /\ [][/\ app'.runs # app.runs =>
                /\ app.shouldProcess
                /\ app.last = "process"
                /\ app'.runs = app.runs + 1
                /\ ~app'.shouldProcess
          /\ (app'.shouldProcess /\ ~app.shouldProcess) =>
                /\ app'.last = "process"
                /\ app'.clicks = app.clicks + 1]_vars

\* one click, one run, and then a file was loaded and a setting changed
\* without another run
C21_Witness ==
    /\ app.clicks = 1
    /\ app.runs = 1
    /\ app.last = "setting"
    /\ app.angleThreshold = 90
    /\ app.geometry # 0
    /\ app.processedData = <<>>
    /\ ~app.effectDue
    /\ ~app.shouldProcess

(***************************************************************************)
(* C28: when a second STL file is selected while the first is still being  *)
(* read, the geometry held by the viewer and by App once every read has    *)
(* ended is that of the file selected last.                                *)
(***************************************************************************)
C28_LatestFileWins ==
    (app.reads = <<>> /\ app.stlFile # 0) =>
        /\ app.viewer.geometry = app.stlFile
        /\ app.geometry = app.stlFile

(***************************************************************************)
(* C29: while the processed data holds n >= 1 polylines the current index  *)
(* is within 0..n-1; prev at 0 and next at n-1 leave it where it is, and   *)
(* a tick of the playback at n-1 takes it to 0.                            *)
(***************************************************************************)
PolylineCount == IF app.processedData = <<>> THEN 0 ELSE app.processedData[1].polylines

====
